---- MODULE Spec2Model ----
(***************************************************************************)
(* State-machine model of SimpleCareerAgent                                *)
(* (student_career_path_recommender.py): the conversation state machine,   *)
(* the profile merge, the bounded history and the gateway's fallback       *)
(* latch (Spec), and the generation path of several sessions, each with    *)
(* its SimpleRateLimiter and FreeLLMClient (LimiterSpec), the text the     *)
(* gateway generates in fallback mode (FallbackSpec), a session as seen    *)
(* by a caller that keeps the responses it was handed (ObservedSpec), and  *)
(* a session that is never reset (NoResetFairSpec).  Strings that          *)
(* the code inspects (messages, profile items, keywords) are sequences of  *)
(* one-character strings, so that lower(), substring tests and             *)
(* case-insensitive comparison are computed.                               *)
(***************************************************************************)
EXTENDS Integers, Sequences, FiniteSets, TLC

\* ------------------------------------------------------------------------
\* Bounds of the model
\* ------------------------------------------------------------------------
\* consecutive_clarifying is unbounded in the code; turns that would push
\* it past this cap are not explored.
MaxCounter == 4
\* asked_questions is unbounded in the code; clarifying turns that would
\* push its length past this cap are not explored.
MaxAsked == 2
\* max_history is a constructor argument (default 8); the model explores
\* a session constructed with max_history = MaxHistory and one constructed
\* with max_history = 0.
MaxHistory == 1
\* with max_history = 0 the history is unbounded in the code; calls that
\* would push its length past this cap are not explored.
MaxKept == 2
\* requests_per_minute is a constructor argument (default 10); the model
\* explores limiters constructed with 1..MaxRpm.
MaxRpm == 2
\* the clock is explored for this many steps of 30 seconds
MaxTicks == 4
\* the fallback generation is explored for profiles of up to this many
\* interests
MaxItems == 2

\* ------------------------------------------------------------------------
\* Strings
\* ------------------------------------------------------------------------
UpperCase == <<"A", "B", "C", "D", "E", "F", "G", "H", "I", "J", "K", "L", "M", "N", "O", "P", "Q", "R", "S", "T", "U", "V", "W", "X", "Y", "Z">>
LowerCase == <<"a", "b", "c", "d", "e", "f", "g", "h", "i", "j", "k", "l", "m", "n", "o", "p", "q", "r", "s", "t", "u", "v", "w", "x", "y", "z">>

RECURSIVE CharMap(_, _, _)
CharMap(from, to, i) ==
  IF i > Len(from) THEN <<>> ELSE (from[i] :> to[i]) @@ CharMap(from, to, i + 1)

ToLower == CharMap(UpperCase, LowerCase, 1)
ToUpper == CharMap(LowerCase, UpperCase, 1)

\* str.lower() on one character
LowerChar(c) == IF c \in DOMAIN ToLower THEN ToLower[c] ELSE c

\* str.upper() on one character
UpperChar(c) == IF c \in DOMAIN ToUpper THEN ToUpper[c] ELSE c

\* str.lower()
Lower(s) == [i \in 1..Len(s) |-> LowerChar(s[i])]

\* s[i:i+len(sub)] == sub
MatchAt(sub, s, i) ==
  /\ i + Len(sub) - 1 <= Len(s)
  /\ \A j \in 1..Len(sub) : s[i + j - 1] = sub[j]

\* Python's  sub in s
Contains(sub, s) == \E i \in 1..(Len(s) + 1) : MatchAt(sub, s, i)

\* ------------------------------------------------------------------------
\* Keyword tables of the source
\* ------------------------------------------------------------------------
career_keywords ==
  << <<"c", "a", "r", "e", "e", "r">>,
     <<"j", "o", "b">>,
     <<"p", "r", "o", "f", "e", "s", "s", "i", "o", "n">>,
     <<"r", "e", "c", "o", "m", "m", "e", "n", "d">>,
     <<"s", "u", "g", "g", "e", "s", "t", "i", "o", "n">>,
     <<"w", "h", "a", "t", " ", "s", "h", "o", "u", "l", "d", " ", "i">>,
     <<"a", "d", "v", "i", "c", "e">>,
     <<"p", "a", "t", "h">>,
     <<"f", "u", "t", "u", "r", "e">>,
     <<"w", "o", "r", "k">> >>

subject_mapping ==
  << << <<"b", "i", "o", "l", "o", "g", "y">>, <<"B", "i", "o", "l", "o", "g", "y">> >>,
     << <<"b", "i", "o">>, <<"B", "i", "o", "l", "o", "g", "y">> >>,
     << <<"l", "i", "f", "e", " ", "s", "c", "i", "e", "n", "c", "e">>, <<"B", "i", "o", "l", "o", "g", "y">> >>,
     << <<"c", "h", "e", "m", "i", "s", "t", "r", "y">>, <<"C", "h", "e", "m", "i", "s", "t", "r", "y">> >>,
     << <<"c", "h", "e", "m">>, <<"C", "h", "e", "m", "i", "s", "t", "r", "y">> >>,
     << <<"p", "h", "y", "s", "i", "c", "s">>, <<"P", "h", "y", "s", "i", "c", "s">> >>,
     << <<"p", "h", "y", "s", "i", "c", "a", "l", " ", "s", "c", "i", "e", "n", "c", "e">>, <<"P", "h", "y", "s", "i", "c", "s">> >>,
     << <<"s", "c", "i", "e", "n", "c", "e">>, <<"S", "c", "i", "e", "n", "c", "e">> >>,
     << <<"s", "c", "i", "e", "n", "c", "e", "s">>, <<"S", "c", "i", "e", "n", "c", "e">> >>,
     << <<"m", "a", "t", "h">>, <<"M", "a", "t", "h", "e", "m", "a", "t", "i", "c", "s">> >>,
     << <<"m", "a", "t", "h", "e", "m", "a", "t", "i", "c", "s">>, <<"M", "a", "t", "h", "e", "m", "a", "t", "i", "c", "s">> >>,
     << <<"c", "a", "l", "c", "u", "l", "u", "s">>, <<"M", "a", "t", "h", "e", "m", "a", "t", "i", "c", "s">> >>,
     << <<"a", "l", "g", "e", "b", "r", "a">>, <<"M", "a", "t", "h", "e", "m", "a", "t", "i", "c", "s">> >>,
     << <<"g", "e", "o", "m", "e", "t", "r", "y">>, <<"M", "a", "t", "h", "e", "m", "a", "t", "i", "c", "s">> >>,
     << <<"e", "n", "g", "l", "i", "s", "h">>, <<"E", "n", "g", "l", "i", "s", "h">> >>,
     << <<"l", "i", "t", "e", "r", "a", "t", "u", "r", "e">>, <<"L", "i", "t", "e", "r", "a", "t", "u", "r", "e">> >>,
     << <<"w", "r", "i", "t", "i", "n", "g">>, <<"W", "r", "i", "t", "i", "n", "g">> >>,
     << <<"r", "e", "a", "d", "i", "n", "g">>, <<"L", "i", "t", "e", "r", "a", "t", "u", "r", "e">> >>,
     << <<"l", "a", "n", "g", "u", "a", "g", "e">>, <<"E", "n", "g", "l", "i", "s", "h">> >>,
     << <<"h", "i", "s", "t", "o", "r", "y">>, <<"H", "i", "s", "t", "o", "r", "y">> >>,
     << <<"g", "e", "o", "g", "r", "a", "p", "h", "y">>, <<"G", "e", "o", "g", "r", "a", "p", "h", "y">> >>,
     << <<"s", "o", "c", "i", "a", "l", " ", "s", "t", "u", "d", "i", "e", "s">>, <<"S", "o", "c", "i", "a", "l", " ", "S", "t", "u", "d", "i", "e", "s">> >>,
     << <<"g", "o", "v", "e", "r", "n", "m", "e", "n", "t">>, <<"G", "o", "v", "e", "r", "n", "m", "e", "n", "t">> >>,
     << <<"c", "i", "v", "i", "c", "s">>, <<"G", "o", "v", "e", "r", "n", "m", "e", "n", "t">> >>,
     << <<"a", "r", "t">>, <<"A", "r", "t">> >>,
     << <<"m", "u", "s", "i", "c">>, <<"M", "u", "s", "i", "c">> >>,
     << <<"d", "r", "a", "m", "a">>, <<"D", "r", "a", "m", "a">> >>,
     << <<"t", "h", "e", "a", "t", "e", "r">>, <<"D", "r", "a", "m", "a">> >>,
     << <<"d", "a", "n", "c", "e">>, <<"D", "a", "n", "c", "e">> >>,
     << <<"c", "r", "e", "a", "t", "i", "v", "e">>, <<"C", "r", "e", "a", "t", "i", "v", "e", " ", "A", "r", "t", "s">> >>,
     << <<"p", "e">>, <<"P", "h", "y", "s", "i", "c", "a", "l", " ", "E", "d", "u", "c", "a", "t", "i", "o", "n">> >>,
     << <<"s", "p", "o", "r", "t", "s">>, <<"P", "h", "y", "s", "i", "c", "a", "l", " ", "E", "d", "u", "c", "a", "t", "i", "o", "n">> >>,
     << <<"g", "y", "m">>, <<"P", "h", "y", "s", "i", "c", "a", "l", " ", "E", "d", "u", "c", "a", "t", "i", "o", "n">> >>,
     << <<"p", "h", "y", "s", "i", "c", "a", "l", " ", "e", "d", "u", "c", "a", "t", "i", "o", "n">>, <<"P", "h", "y", "s", "i", "c", "a", "l", " ", "E", "d", "u", "c", "a", "t", "i", "o", "n">> >>,
     << <<"c", "o", "m", "p", "u", "t", "e", "r">>, <<"C", "o", "m", "p", "u", "t", "e", "r", " ", "S", "c", "i", "e", "n", "c", "e">> >>,
     << <<"c", "o", "d", "i", "n", "g">>, <<"C", "o", "m", "p", "u", "t", "e", "r", " ", "S", "c", "i", "e", "n", "c", "e">> >>,
     << <<"p", "r", "o", "g", "r", "a", "m", "m", "i", "n", "g">>, <<"C", "o", "m", "p", "u", "t", "e", "r", " ", "S", "c", "i", "e", "n", "c", "e">> >>,
     << <<"t", "e", "c", "h", "n", "o", "l", "o", "g", "y">>, <<"T", "e", "c", "h", "n", "o", "l", "o", "g", "y">> >>,
     << <<"t", "e", "c", "h">>, <<"T", "e", "c", "h", "n", "o", "l", "o", "g", "y">> >> >>

hobby_keywords ==
  << << <<"r", "e", "a", "d", "i", "n", "g">>, <<"R", "e", "a", "d", "i", "n", "g">> >>,
     << <<"g", "a", "m", "i", "n", "g">>, <<"G", "a", "m", "i", "n", "g">> >>,
     << <<"g", "a", "m", "e", "s">>, <<"G", "a", "m", "i", "n", "g">> >>,
     << <<"p", "a", "i", "n", "t", "i", "n", "g">>, <<"P", "a", "i", "n", "t", "i", "n", "g">> >>,
     << <<"d", "r", "a", "w", "i", "n", "g">>, <<"D", "r", "a", "w", "i", "n", "g">> >>,
     << <<"s", "k", "e", "t", "c", "h", "i", "n", "g">>, <<"D", "r", "a", "w", "i", "n", "g">> >>,
     << <<"s", "i", "n", "g", "i", "n", "g">>, <<"S", "i", "n", "g", "i", "n", "g">> >>,
     << <<"d", "a", "n", "c", "i", "n", "g">>, <<"D", "a", "n", "c", "i", "n", "g">> >>,
     << <<"c", "o", "o", "k", "i", "n", "g">>, <<"C", "o", "o", "k", "i", "n", "g">> >>,
     << <<"g", "a", "r", "d", "e", "n", "i", "n", "g">>, <<"G", "a", "r", "d", "e", "n", "i", "n", "g">> >>,
     << <<"p", "h", "o", "t", "o", "g", "r", "a", "p", "h", "y">>, <<"P", "h", "o", "t", "o", "g", "r", "a", "p", "h", "y">> >>,
     << <<"w", "r", "i", "t", "i", "n", "g">>, <<"W", "r", "i", "t", "i", "n", "g">> >>,
     << <<"s", "w", "i", "m", "m", "i", "n", "g">>, <<"S", "w", "i", "m", "m", "i", "n", "g">> >>,
     << <<"r", "u", "n", "n", "i", "n", "g">>, <<"R", "u", "n", "n", "i", "n", "g">> >>,
     << <<"h", "i", "k", "i", "n", "g">>, <<"H", "i", "k", "i", "n", "g">> >>,
     << <<"c", "a", "m", "p", "i", "n", "g">>, <<"C", "a", "m", "p", "i", "n", "g">> >>,
     << <<"p", "l", "a", "y", "i", "n", "g">>, <<"P", "l", "a", "y", "i", "n", "g", " ", "M", "u", "s", "i", "c">> >>,
     << <<"i", "n", "s", "t", "r", "u", "m", "e", "n", "t">>, <<"P", "l", "a", "y", "i", "n", "g", " ", "M", "u", "s", "i", "c">> >> >>

interest_patterns ==
  << <<"i", "n", "t", "e", "r", "e", "s", "t", "e", "d", " ", "i", "n", " ">>,
     <<"l", "o", "v", "e", " ">>,
     <<"l", "i", "k", "e", " ">>,
     <<"e", "n", "j", "o", "y", " ">>,
     <<"p", "a", "s", "s", "i", "o", "n", "a", "t", "e", " ", "a", "b", "o", "u", "t", " ">>,
     <<"f", "a", "s", "c", "i", "n", "a", "t", "e", "d", " ", "b", "y", " ">> >>

goal_patterns ==
  << <<"w", "a", "n", "t", " ", "t", "o", " ", "b", "e", " ">>,
     <<"d", "r", "e", "a", "m", " ", "o", "f", " ", "b", "e", "i", "n", "g", " ">>,
     <<"h", "o", "p", "e", " ", "t", "o", " ", "b", "e", "c", "o", "m", "e", " ">>,
     <<"a", "s", "p", "i", "r", "e", " ", "t", "o", " ", "b", "e", " ">> >>


\* ------------------------------------------------------------------------
\* Small helpers on sequences
\* ------------------------------------------------------------------------
InSeq(x, s) == \E i \in 1..Len(s) : s[i] = x

MinOf(S) == CHOOSE x \in S : \A y \in S : x <= y

\* ------------------------------------------------------------------------
\* ConversationState and StudentProfile
\* ------------------------------------------------------------------------
GREETING == "greeting"
GATHERING_INFO == "gathering"
CLARIFYING == "clarifying"
RECOMMENDING == "recommending"
DISCUSSING == "discussing"

ConversationState == {GREETING, GATHERING_INFO, CLARIFYING, RECOMMENDING, DISCUSSING}

\* the fields of StudentProfile, in the order _update_profile merges them
Categories ==
  <<"interests", "hobbies", "subjects", "strengths", "dislikes", "personality", "goals">>

CategorySet == {Categories[i] : i \in 1..Len(Categories)}

\* an object with the seven fields, field c holding f[c]
Fields(f) ==
  [interests |-> f["interests"], hobbies |-> f["hobbies"],
   subjects |-> f["subjects"], strengths |-> f["strengths"],
   dislikes |-> f["dislikes"], personality |-> f["personality"],
   goals |-> f["goals"]]

\* StudentProfile(): every field an empty list
StudentProfile == Fields([c \in CategorySet |-> <<>>])

\* StudentProfile.completeness, as the percentage int(completeness() * 100)
\* (0, 25, 50, 75, 100): filled / 4 over the four core fields
CoreFields == {"interests", "hobbies", "subjects", "strengths"}

completeness(p) == (Cardinality({c \in CoreFields : p[c] # <<>>}) * 100) \div Cardinality(CoreFields)

\* StudentProfile.snapshot: json.dumps of the fields with sorted keys; two
\* snapshots are equal exactly when every field holds the same list
snapshot(p) == [i \in 1..Len(Categories) |-> p[Categories[i]]]

\* StudentProfile.has_changed
has_changed(p, other_snapshot) == snapshot(p) # other_snapshot

\* ------------------------------------------------------------------------
\* Values that json.loads can put into an extracted delta
\* ------------------------------------------------------------------------
\* an element of a JSON array: a string, a truthy non-string (non-zero
\* number, true, non-empty array or object) or a falsy non-string (null, 0,
\* false, empty array or object)
Str(s) == [t |-> "str", v |-> s]
Truthy == [t |-> "truthy", v |-> <<>>]
Falsy == [t |-> "falsy", v |-> <<>>]

\* the value of one key of the extracted object: key absent, an array, or
\* a value that cannot be iterated (null, number, boolean)
Absent == [t |-> "absent", v |-> <<>>]
List(items) == [t |-> "list", v |-> items]
Scalar == [t |-> "scalar", v |-> <<>>]

\* the empty object {} (also what _extract_info returns without JSON)
EmptyDelta == Fields([c \in CategorySet |-> Absent])

Delta(pairs) ==
  LET F(c) == IF \E i \in 1..Len(pairs) : pairs[i][1] = c
              THEN pairs[CHOOSE i \in 1..Len(pairs) : pairs[i][1] = c][2]
              ELSE Absent
  IN Fields([c \in CategorySet |-> F(c)])

\* ------------------------------------------------------------------------
\* FreeLLMClient._extract_info_fallback
\* ------------------------------------------------------------------------
\* DynamicPrompts.extract_info up to the closing quote of the message
ExtractPromptPrefix ==
  <<"E", "x", "t", "r", "a", "c", "t", " ", "s", "t", "u", "d", "e", "n", "t", " ", "i", "n", "f", "o", "r", "m", "a", "t", "i", "o", "n", " ", "f", "r", "o", "m", " ", "t", "h", "i", "s", " ", "m", "e", "s", "s", "a", "g", "e", ":", " ", "\"">>

extract_info_prompt(message) == ExtractPromptPrefix \o message \o <<"\"", "\n">>

MessageKey == <<"m", "e", "s", "s", "a", "g", "e", ":", " ", "\"">>

\* position of the quote closing a match of  message: "(.*?)"  that starts
\* at i, 0 when there is none ('.' does not match a newline)
QuoteAfter(prompt, i) ==
  LET from == i + Len(MessageKey)
      ends == {j \in from..Len(prompt) :
                 /\ prompt[j] = "\""
                 /\ \A k \in from..(j - 1) : prompt[k] # "\n"}
  IN IF ends = {} THEN 0 ELSE MinOf(ends)

\* re.search(r'message: "(.*?)"', prompt): [found, text]
message_match(prompt) ==
  LET starts == {i \in 1..Len(prompt) :
                   MatchAt(MessageKey, prompt, i) /\ QuoteAfter(prompt, i) # 0}
  IN IF starts = {} THEN [found |-> FALSE, text |-> <<>>]
     ELSE LET i == MinOf(starts)
          IN [found |-> TRUE,
              text |-> SubSeq(prompt, i + Len(MessageKey), QuoteAfter(prompt, i) - 1)]

\* for keyword, label in table.items(): if keyword in message and label not
\* yet in the list, append label
RECURSIVE ScanTable(_, _, _, _)
ScanTable(table, message, i, acc) ==
  IF i > Len(table) THEN acc
  ELSE LET hit == Contains(table[i][1], message) /\ ~InSeq(table[i][2], acc)
       IN ScanTable(table, message, i + 1,
                    IF hit THEN Append(acc, table[i][2]) ELSE acc)

Terminators == {".", ",", "!", "?"}
Whitespace == {" ", "\t", "\n", "\r"}
Digits == {"0", "1", "2", "3", "4", "5", "6", "7", "8", "9"}

IsLetter(c) == InSeq(c, LowerCase) \/ InSeq(c, UpperCase)
IsWordChar(c) == IsLetter(c) \/ c \in Digits \/ c = "_"

\* last index of the lazy capture (.+?) that starts at b and must be
\* followed by a terminator or the end of the string; 0 when none
CaptureEnd(s, b) ==
  LET ends == {e \in b..Len(s) :
                 /\ \A k \in b..e : s[k] # "\n"
                 /\ \/ e = Len(s)
                    \/ s[e + 1] \in Terminators
                    \/ (e + 1 = Len(s) /\ s[e + 1] = "\n")}
  IN IF ends = {} THEN 0 ELSE MinOf(ends)

\* re.findall(phrase + r"(.+?)(?:\.|,|!|\?|$)", s), scanning from pos
RECURSIVE FindAll(_, _, _)
FindAll(phrase, s, pos) ==
  LET cands == {i \in pos..Len(s) :
                  MatchAt(phrase, s, i) /\ CaptureEnd(s, i + Len(phrase)) # 0}
  IN IF cands = {} THEN <<>>
     ELSE LET i == MinOf(cands)
              b == i + Len(phrase)
              e == CaptureEnd(s, b)
              next == IF e < Len(s) /\ s[e + 1] \in Terminators THEN e + 2 ELSE e + 1
          IN <<SubSeq(s, b, e)>> \o FindAll(phrase, s, next)

StopWords == {<<"a", "n", "d">>, <<"o", "r">>, <<"t", "h", "e">>, <<"a">>, <<"a", "n">>}

\* end of the word that starts at i
WordEnd(s, i) ==
  MinOf({j \in i..Len(s) : j = Len(s) \/ ~IsWordChar(s[j + 1])})

\* re.sub(r'\b(and|or|the|a|an)\b', '', s): drop every whole word that is a
\* stop word
RECURSIVE DropStopWords(_, _)
DropStopWords(s, i) ==
  IF i > Len(s) THEN <<>>
  ELSE IF IsWordChar(s[i]) /\ (i = 1 \/ ~IsWordChar(s[i - 1]))
       THEN LET j == WordEnd(s, i)
                w == SubSeq(s, i, j)
            IN (IF w \in StopWords THEN <<>> ELSE w) \o DropStopWords(s, j + 1)
       ELSE <<s[i]>> \o DropStopWords(s, i + 1)

\* str.strip()
Strip(s) ==
  LET keep == {i \in 1..Len(s) : s[i] \notin Whitespace}
  IN IF keep = {} THEN <<>>
     ELSE SubSeq(s, MinOf(keep), CHOOSE x \in keep : \A y \in keep : y <= x)

\* str.split(): the maximal runs of non-whitespace characters
RECURSIVE Split(_, _)
Split(s, i) ==
  IF i > Len(s) THEN <<>>
  ELSE IF s[i] \in Whitespace THEN Split(s, i + 1)
       ELSE LET j == MinOf({k \in i..Len(s) : k = Len(s) \/ s[k + 1] \in Whitespace})
            IN <<SubSeq(s, i, j)>> \o Split(s, j + 1)

\* " ".join(words)
RECURSIVE JoinSpace(_)
JoinSpace(words) ==
  IF words = <<>> THEN <<>>
  ELSE IF Len(words) = 1 THEN words[1]
       ELSE words[1] \o <<" ">> \o JoinSpace(Tail(words))

\* str.title(): a letter is upper-cased after a non-letter and lower-cased
\* after a letter
Title(s) ==
  [i \in 1..Len(s) |->
     IF i = 1 \/ ~IsLetter(s[i - 1]) THEN UpperChar(s[i]) ELSE LowerChar(s[i])]

\* the body of the loop over the matches of one interest pattern
RECURSIVE AddInterests(_, _, _)
AddInterests(matches, i, acc) ==
  IF i > Len(matches) THEN acc
  ELSE LET clean_match == Strip(DropStopWords(matches[i], 1))
           words == Split(clean_match, 1)
           interest == Title(JoinSpace(SubSeq(words, 1, IF Len(words) < 3 THEN Len(words) ELSE 3)))
           add == Len(clean_match) > 2 /\ ~InSeq(interest, acc)
       IN AddInterests(matches, i + 1, IF add THEN Append(acc, interest) ELSE acc)

\* the body of the loop over the matches of one goal pattern
RECURSIVE AddGoals(_, _, _)
AddGoals(matches, i, acc) ==
  IF i > Len(matches) THEN acc
  ELSE LET clean_match == Title(Strip(matches[i]))
       IN AddGoals(matches, i + 1,
                   IF InSeq(clean_match, acc) THEN acc ELSE Append(acc, clean_match))

RECURSIVE ScanInterestPatterns(_, _, _)
ScanInterestPatterns(message, k, acc) ==
  IF k > Len(interest_patterns) THEN acc
  ELSE ScanInterestPatterns(message, k + 1,
         AddInterests(FindAll(interest_patterns[k], message, 1), 1, acc))

RECURSIVE ScanGoalPatterns(_, _, _)
ScanGoalPatterns(message, k, acc) ==
  IF k > Len(goal_patterns) THEN acc
  ELSE ScanGoalPatterns(message, k + 1,
         AddGoals(FindAll(goal_patterns[k], message, 1), 1, acc))

RECURSIVE StrItems(_)
StrItems(labels) ==
  IF labels = <<>> THEN <<>> ELSE <<Str(Head(labels))>> \o StrItems(Tail(labels))

StrList(labels) == List(StrItems(labels))

\* the object that _extract_info parses back from the JSON text which
\* _extract_info_fallback returns for the prompt
extract_info_fallback(prompt) ==
  LET m == message_match(prompt)
      message == Lower(m.text)
      Nothing(c) == List(<<>>)
      Extracted(c) ==
        CASE c = "subjects" -> StrList(ScanTable(subject_mapping, message, 1, <<>>))
          [] c = "interests" -> StrList(ScanInterestPatterns(message, 1, <<>>))
          [] c = "hobbies" -> StrList(ScanTable(hobby_keywords, message, 1, <<>>))
          [] c = "goals" -> StrList(ScanGoalPatterns(message, 1, <<>>))
          [] OTHER -> List(<<>>)
  IN IF ~m.found THEN Fields([c \in CategorySet |-> Nothing(c)])
     ELSE Fields([c \in CategorySet |-> Extracted(c)])

\* SimpleCareerAgent._is_career_related_question
is_career_related_question(message) ==
  \E k \in 1..Len(career_keywords) : Contains(career_keywords[k], Lower(message))

\* ------------------------------------------------------------------------
\* Inputs of the model
\* ------------------------------------------------------------------------
\* student messages: no keyword at all; a career keyword ("work") inside a
\* capitalised word; a message the keyword tables extract a subject and a
\* hobby from
Messages == {"ok", "Homework", "writing"}

\* the characters of each message
Chars ==
  ("ok" :> <<"o", "k">>) @@
  ("Homework" :> <<"H", "o", "m", "e", "w", "o", "r", "k">>) @@
  ("writing" :> <<"w", "r", "i", "t", "i", "n", "g">>)

ItemArt == <<"a", "r", "t">>
ItemArtCap == <<"A", "r", "t">>
ItemChess == <<"c", "h", "e", "s", "s">>
ItemNoise == <<"n", "o", "i", "s", "e">>

\* what _extract_info can get from json.loads when the endpoint answers
\* with text: no object at all, well-formed deltas (one that adds a single
\* core field, its item given twice in different case; one that repeats
\* that item in another case and adds a list
\* outside the core fields, with a null item in it) and ill-typed objects
\* (a null field; an array holding a number, after a well-formed field)
ApiDeltas ==
  { EmptyDelta,
    Delta(<< <<"interests", List(<<Str(ItemArt), Str(ItemArtCap)>>)>> >>),
    Delta(<< <<"interests", List(<<Str(ItemArtCap)>>)>>,
             <<"dislikes", List(<<Falsy, Str(ItemNoise)>>)>> >>),
    Delta(<< <<"interests", Scalar>> >>),
    Delta(<< <<"hobbies", List(<<Str(ItemChess)>>)>>,
             <<"subjects", List(<<Truthy>>)>> >>) }

\* outcome of one call of the inference endpoint: 200 with generated text;
\* 200 without usable text; a failure, which is another status or an
\* exception (timeout included)
ApiOutcomes == {"text", "empty", "failure"}

\* what the endpoint can answer to requests.post, as _call_huggingface_api
\* tells the cases apart
EndpointReplies ==
  {"200 text", "200 empty text", "200 empty list", "200 no list",
   "200 ill-shaped item", "other status", "exception"}

\* lines 104-114: a 200 whose body is a non-empty list with a
\* "generated_text" string gives that text, stripped; a 200 with another
\* body gives None; an item without get() or a text without strip() raises
\* inside the try block, like requests.post or response.json() do
reply_outcome(reply) ==
  CASE reply = "200 text" -> "text"
    [] reply \in {"200 empty text", "200 empty list", "200 no list"} -> "empty"
    [] reply \in {"200 ill-shaped item", "other status", "exception"} -> "failure"

\* the operators above, tabulated once over the messages of the model
RECURSIVE CareerTableOver(_)
CareerTableOver(S) ==
  IF S = {} THEN <<>>
  ELSE LET m == CHOOSE x \in S : TRUE
       IN (m :> is_career_related_question(Chars[m])) @@ CareerTableOver(S \ {m})

CareerTable == CareerTableOver(Messages)

RECURSIVE FallbackDeltaTableOver(_)
FallbackDeltaTableOver(S) ==
  IF S = {} THEN <<>>
  ELSE LET m == CHOOSE x \in S : TRUE
       IN (m :> extract_info_fallback(extract_info_prompt(Chars[m]))) @@ FallbackDeltaTableOver(S \ {m})

FallbackDeltaTable == FallbackDeltaTableOver(Messages)

\* ------------------------------------------------------------------------
\* FreeLLMClient: the endpoint call and the fallback latch
\* ------------------------------------------------------------------------
\* a _call_huggingface_api that sets use_fallback whenever it has no text
\* to return, the 200 answers without text included
call_huggingface_api_LatchOnEmpty(outcome) ==
  [text |-> outcome = "text",
   use_fallback |-> outcome # "text"]

\* _call_huggingface_api: [text: a non-empty text was returned,
\* use_fallback: the flag after the call]
call_huggingface_api(outcome) ==
  [text |-> outcome = "text",
   use_fallback |-> outcome = "failure"]

\* generate_response without the except clauses of lines 80-82 and
\* 112-114: a failure of the endpoint call leaves it as an exception
generate_response_Propagates(fallback_mode, outcome) ==
  IF ~fallback_mode
  THEN [api |-> outcome = "text", use_fallback |-> FALSE,
        raised |-> outcome = "failure"]
  ELSE [api |-> FALSE, use_fallback |-> TRUE, raised |-> FALSE]

\* generate_response: [api: the returned string is the endpoint's text
\* (otherwise it is _fallback_generation(prompt)), use_fallback: the flag
\* afterwards, raised: an exception left the call]
generate_response(fallback_mode, outcome) ==
  IF ~fallback_mode
  THEN LET r == call_huggingface_api(outcome)
       IN [api |-> r.text, use_fallback |-> r.use_fallback, raised |-> FALSE]
  ELSE [api |-> FALSE, use_fallback |-> TRUE, raised |-> FALSE]

\* the endpoint is only contacted while use_fallback is false
Outcomes(fallback_mode) == IF fallback_mode THEN {"not called"} ELSE ApiOutcomes

\* the text of a generated reply, named by where it comes from: the
\* endpoint, or _fallback_generation applied to the prompt of that kind
GeneratedText(gen, prompt_kind) ==
  IF gen.api THEN "endpoint text"
  ELSE CASE prompt_kind = "questions" -> "fallback_generation(questions prompt)"
         [] prompt_kind = "recommendations" -> "fallback_generation(recommendations prompt)"
         [] prompt_kind = "conversation" -> "fallback_generation(conversation prompt)"

\* ------------------------------------------------------------------------
\* SimpleCareerAgent: helpers
\* ------------------------------------------------------------------------
\* _trim_history: history[-max_history:] when longer than max_history
\* (the slice [-0:] is the whole list)
trim_history(history, limit) ==
  IF Len(history) > limit /\ limit # 0
  THEN SubSeq(history, Len(history) - limit + 1, Len(history))
  ELSE history

\* an _extract_info that returns the response text itself where line 627
\* returns {}: a str has no get(), so the first add_unique call raises
extract_info_ReturnsText(message, gen, api_delta) ==
  IF gen.api
  THEN (IF api_delta = EmptyDelta THEN Fields([c \in CategorySet |-> Scalar])
        ELSE api_delta)
  ELSE FallbackDeltaTable[message]

\* _extract_info: the parsed object when the endpoint answered with text
\* (api_delta, EmptyDelta when the text holds no parsable object), else the
\* object the keyword fallback produces for the message
extract_info(message, gen, api_delta) ==
  IF gen.api THEN api_delta ELSE FallbackDeltaTable[message]

\* add_unique comparing the items as they are, without lower()
RECURSIVE add_unique_CaseSensitive(_, _, _)
add_unique_CaseSensitive(target_list, new_items, i) ==
  IF i > Len(new_items) THEN [list |-> target_list, raised |-> FALSE]
  ELSE LET item == new_items[i]
       IN IF item.t = "falsy" \/ (item.t = "str" /\ item.v = <<>>)
          THEN add_unique_CaseSensitive(target_list, new_items, i + 1)
          ELSE IF item.t # "str"
               THEN [list |-> target_list, raised |-> TRUE]
               ELSE IF \E k \in 1..Len(target_list) : target_list[k] = item.v
                    THEN add_unique_CaseSensitive(target_list, new_items, i + 1)
                    ELSE add_unique_CaseSensitive(Append(target_list, item.v),
                                                  new_items, i + 1)

\* add_unique without the membership test: every truthy item is appended
RECURSIVE add_unique_AlwaysAppend(_, _, _)
add_unique_AlwaysAppend(target_list, new_items, i) ==
  IF i > Len(new_items) THEN [list |-> target_list, raised |-> FALSE]
  ELSE LET item == new_items[i]
       IN IF item.t = "falsy" \/ (item.t = "str" /\ item.v = <<>>)
          THEN add_unique_AlwaysAppend(target_list, new_items, i + 1)
          ELSE IF item.t # "str"
               THEN [list |-> target_list, raised |-> TRUE]
               ELSE add_unique_AlwaysAppend(Append(target_list, item.v),
                                            new_items, i + 1)

\* add_unique of _update_profile, from the i-th new item on:
\* [list, raised]; a truthy item without lower() raises AttributeError
RECURSIVE add_unique(_, _, _)
add_unique(target_list, new_items, i) ==
  IF i > Len(new_items) THEN [list |-> target_list, raised |-> FALSE]
  ELSE LET item == new_items[i]
       IN IF item.t = "falsy" \/ (item.t = "str" /\ item.v = <<>>)
          THEN add_unique(target_list, new_items, i + 1)
          ELSE IF item.t # "str"
               THEN [list |-> target_list, raised |-> TRUE]
               ELSE IF \E k \in 1..Len(target_list) :
                          Lower(target_list[k]) = Lower(item.v)
                     THEN add_unique(target_list, new_items, i + 1)
                     ELSE add_unique(Append(target_list, item.v), new_items, i + 1)

\* an _update_profile that assigns the extracted list to the field instead
\* of adding to it
merge_field_Replace(p, extracted_info, c) ==
  IF extracted_info[c].t = "scalar" THEN [list |-> p[c], raised |-> TRUE]
  ELSE IF extracted_info[c].t = "absent" THEN [list |-> p[c], raised |-> FALSE]
  ELSE add_unique(<<>>, extracted_info[c].v, 1)

\* one add_unique call of _update_profile, for field c: iterating a value
\* that is no list raises TypeError
merge_field(p, extracted_info, c) ==
  IF extracted_info[c].t = "scalar" THEN [list |-> p[c], raised |-> TRUE]
  ELSE add_unique(p[c], extracted_info[c].v, 1)

\* the first of the seven add_unique calls that raises, Len(Categories) + 1
\* when none does
first_raise(p, extracted_info) ==
  MinOf({i \in 1..Len(Categories) : merge_field(p, extracted_info, Categories[i]).raised}
        \cup {Len(Categories) + 1})

\* _update_profile: [profile, raised]; the add_unique calls run in the order
\* of Categories up to the first that raises, and what was appended before
\* the exception stays in the profile
update_profile(p, extracted_info) ==
  IF extracted_info = EmptyDelta THEN [profile |-> p, raised |-> FALSE]
  ELSE LET stop == first_raise(p, extracted_info)
           Merged(c) ==
             IF \E i \in 1..Len(Categories) : Categories[i] = c /\ i <= stop
             THEN merge_field(p, extracted_info, c).list
             ELSE p[c]
       IN [profile |-> Fields([c \in CategorySet |-> Merged(c)]), raised |-> stop <= Len(Categories)]

\* the thresholds of _generate_response, completeness as a percentage
RecommendThreshold == 50
PatienceThreshold == 3

\* update_counter with "and" for "or" in the condition of line 587
update_counter_BothRequired(counter, changed, career) ==
  IF changed /\ career THEN 0 ELSE counter + 1

\* lines 586-590 of process_message: the counter after the update
update_counter(counter, changed, career) ==
  IF changed \/ career THEN 0 ELSE counter + 1

\* select_rule without the test of lines 671-672 for the Discussing state
select_rule_NoDiscussingBranch(st, career, percent, given, counter) ==
  IF st = GREETING THEN "greeting"
  ELSE IF career /\ percent > 0 THEN "career"
  ELSE IF percent >= RecommendThreshold /\ ~given THEN "threshold"
  ELSE IF counter > PatienceThreshold THEN "patience"
  ELSE "clarify"

\* the branch _generate_response takes
select_rule(st, career, percent, given, counter) ==
  IF st = GREETING THEN "greeting"
  ELSE IF career /\ percent > 0 THEN "career"
  ELSE IF st = DISCUSSING THEN "discussion"
  ELSE IF percent >= RecommendThreshold /\ ~given THEN "threshold"
  ELSE IF counter > PatienceThreshold THEN "patience"
  ELSE "clarify"

Response(type, content, keys, percent) ==
  [type |-> type, content |-> content,
   metadata |-> [keys |-> keys, completeness |-> percent]]

\* _greeting_response
greeting_response == Response("greeting", "greeting text", {"completeness"}, 0)

\* _generate_questions, _generate_recommendations, _handle_discussion: the
\* response built from the generated text (generate_response catches every
\* exception itself, so the except branches are not taken)
\* a _generate_questions whose kind tag depends on where the text came from
generate_questions_KindFromText(p, text) ==
  Response(IF text = "endpoint text" THEN "questions" ELSE "fallback",
           text, {"completeness"}, completeness(p))

generate_questions(p, text) ==
  Response("questions", text, {"completeness"}, completeness(p))

generate_recommendations(p, text) ==
  Response("recommendations", text, {"completeness", "profile_summary"}, completeness(p))

handle_discussion(p, text) ==
  Response("discussion", text, {"completeness"}, completeness(p))

\* _fallback_response: the fixed utterance of the current state
fallback_response(st) ==
  Response("fallback",
           CASE st = GREETING -> "Hi! What subjects or activities do you enjoy most?"
             [] st = GATHERING_INFO -> "Tell me about your interests and hobbies."
             [] st = CLARIFYING -> "What kind of activities do you find most engaging?"
             [] st = RECOMMENDING -> "Let me suggest some careers based on your interests."
             [] st = DISCUSSING -> "What would you like to know more about?",
           {"error"}, 0)

\* an exception that leaves process_message, as its caller would see it
Raised == Response("exception", "", {}, 0)

\* process_message without its except clause: the exception propagates
process_message_returns_Uncaught(raised, st, result) ==
  IF raised THEN Raised ELSE result

\* the try/except of process_message (lines 569, 606-608): what the caller
\* gets when the body raised, or returned result
process_message_returns(raised, st, result) ==
  IF raised THEN fallback_response(st) ELSE result

Turn(role, content, st) == [role |-> role, content |-> content, state |-> st]

\* ------------------------------------------------------------------------
\* State
\* ------------------------------------------------------------------------
VARIABLES
  state,                   \* SimpleCareerAgent.state
  profile,                 \* SimpleCareerAgent.profile
  conversation_history,    \* SimpleCareerAgent.conversation_history
  asked_questions,         \* SimpleCareerAgent.asked_questions
  consecutive_clarifying,  \* SimpleCareerAgent.consecutive_clarifying
  max_history,             \* SimpleCareerAgent.max_history
  recommendations_given,   \* SimpleCareerAgent.recommendations_given
  use_fallback,            \* FreeLLMClient.use_fallback
  response,                \* what the last process_message call returned
  call,                    \* the last operation: its name, its message, the
                           \* branch taken and the counter after lines 586-590
  quiet_turns,             \* consecutive process_message calls, up to now,
                           \* whose message has no career keyword and which
                           \* left the profile as it was (counted up to 4)
  observed                 \* for a caller that keeps what process_message
                           \* returns (on): the endpoint outcomes of the last
                           \* call's two generate_response calls, and the
                           \* dict that the last recommendations response
                           \* carries as metadata["profile_summary"]

\* the generation path of several sessions in one process: each session's
\* SimpleRateLimiter and FreeLLMClient, and the clock they read
VARIABLES
  clock,                   \* time.time(), in seconds
  rpm,                     \* SimpleRateLimiter.rpm
  requests,                \* SimpleRateLimiter.requests, per session
  sleeping,                \* per session: the wait_if_needed call suspended
                           \* in asyncio.sleep, if any
  clients,                 \* FreeLLMClient.use_fallback, per session
  released,                \* per session: when its calls left wait_if_needed,
                           \* for those that did less than 60 seconds ago
  generation               \* the last wait_if_needed call that returned and
                           \* the generate_response call that followed it

limiter_vars == <<clock, rpm, requests, sleeping, clients, released, generation>>

\* a generation call of a session whose gateway is in fallback mode: the
\* caller, the message and profile the prompt is built from, and what
\* _fallback_generation returns
VARIABLE fallback_call

vars == <<state, profile, conversation_history, asked_questions,
          consecutive_clarifying, max_history, recommendations_given,
          use_fallback, response, call, quiet_turns, observed, limiter_vars,
          fallback_call>>

NoResponse == Response("none", "", {}, 0)

\* the sessions (agent instances) that generate in one process
Sessions == {1, 2}

NotSleeping == [now |-> 0, wake |-> 0, sleep_time |-> 0, on |-> FALSE]

NoGeneration ==
  [session |-> 0, now |-> 0, full |-> FALSE, sleep_time |-> 0, reply |-> "none",
   api |-> FALSE, raised |-> FALSE]

\* SimpleRateLimiter.__init__(r) and FreeLLMClient.__init__ of every
\* session, at time 0
LimiterIdle(r) ==
  /\ clock = 0
  /\ rpm = r
  /\ requests = [a \in Sessions |-> <<>>]
  /\ sleeping = [a \in Sessions |-> NotSleeping]
  /\ clients = [a \in Sessions |-> FALSE]
  /\ released = [a \in Sessions |-> <<>>]
  /\ generation = NoGeneration

\* no recommendations response has been returned yet
NoSummary ==
  [held |-> FALSE, live |-> FALSE, returned |-> StudentProfile,
   content |-> StudentProfile]

NoCalls == <<"not called", "not called">>

\* the caller drops every response it gets
NotObserved == [on |-> FALSE, outcomes |-> NoCalls, summary |-> NoSummary]

\* the caller keeps the responses
Observing == [on |-> TRUE, outcomes |-> NoCalls, summary |-> NoSummary]

\* line 771: the summary of a recommendations response is
\* self.profile.__dict__ itself, so while self.profile is that object
\* (live) the dict the caller holds has the content of the profile p; the
\* summary of a conversation that was reset is let go with the next message
observe(obs, outcomes, is_recommendations, p) ==
  IF ~obs.on THEN obs
  ELSE [on |-> TRUE,
        outcomes |-> outcomes,
        summary |-> IF is_recommendations
                    THEN [held |-> TRUE, live |-> TRUE, returned |-> p, content |-> p]
                    ELSE IF obs.summary.held /\ obs.summary.live
                         THEN [obs.summary EXCEPT !.content = p]
                         ELSE NoSummary]

\* line 801: reset() binds self.profile to a new object; the dict the
\* caller holds stays as it is
observe_reset(obs) ==
  IF ~obs.on THEN obs
  ELSE [obs EXCEPT !.outcomes = NoCalls, !.summary.live = FALSE]

\* no generation call in fallback mode is under way
NoFallbackCall ==
  [op |-> "idle", message |-> "", profile |-> StudentProfile,
   generated |-> [branch |-> "none", titles |-> <<>>]]

\* SimpleCareerAgent.__init__ (max_history is the constructor's argument)
Init ==
  /\ LimiterIdle(MaxRpm)
  /\ fallback_call = NoFallbackCall
  /\ observed = NotObserved
  /\ state = GREETING
  /\ profile = StudentProfile
  /\ conversation_history = <<>>
  /\ asked_questions = <<>>
  /\ consecutive_clarifying = 0
  /\ max_history \in {0, MaxHistory}
  /\ recommendations_given = FALSE
  /\ use_fallback = FALSE
  /\ response = NoResponse
  /\ call = [op |-> "init", message |-> "", rule |-> "none", counter |-> 0]
  /\ quiet_turns = 0

\* ------------------------------------------------------------------------
\* process_message
\* ------------------------------------------------------------------------
\* a _generate_response whose patience branch lacks line 687
generate_response_for_PatienceUnmarked(rule, p, counter, given, asked, gen) ==
  CASE rule = "greeting" ->
         [state |-> GATHERING_INFO, given |-> given, counter |-> counter,
          asked |-> asked, response |-> greeting_response]
    [] rule \in {"career", "threshold"} ->
         [state |-> DISCUSSING, given |-> TRUE, counter |-> counter,
          asked |-> asked,
          response |-> generate_recommendations(p, GeneratedText(gen, "recommendations"))]
    [] rule = "patience" ->
         [state |-> DISCUSSING, given |-> given, counter |-> 0,
          asked |-> asked,
          response |-> generate_recommendations(p, GeneratedText(gen, "recommendations"))]
    [] rule = "discussion" ->
         [state |-> DISCUSSING, given |-> given, counter |-> counter,
          asked |-> asked,
          response |-> handle_discussion(p, GeneratedText(gen, "conversation"))]
    [] rule = "clarify" ->
         [state |-> CLARIFYING, given |-> given, counter |-> counter,
          asked |-> Append(asked, GeneratedText(gen, "questions")),
          response |-> generate_questions(p, GeneratedText(gen, "questions"))]

\* _generate_response: the state the agent is left in and the response,
\* for the branch taken; gen is the result of the generation call
generate_response_for(rule, p, counter, given, asked, gen) ==
  CASE rule = "greeting" ->
         [state |-> GATHERING_INFO, given |-> given, counter |-> counter,
          asked |-> asked, response |-> greeting_response]
    [] rule \in {"career", "threshold"} ->
         [state |-> DISCUSSING, given |-> TRUE, counter |-> counter,
          asked |-> asked,
          response |-> generate_recommendations(p, GeneratedText(gen, "recommendations"))]
    [] rule = "patience" ->
         [state |-> DISCUSSING, given |-> TRUE, counter |-> 0,
          asked |-> asked,
          response |-> generate_recommendations(p, GeneratedText(gen, "recommendations"))]
    [] rule = "discussion" ->
         [state |-> DISCUSSING, given |-> given, counter |-> counter,
          asked |-> asked,
          response |-> handle_discussion(p, GeneratedText(gen, "conversation"))]
    [] rule = "clarify" ->
         [state |-> CLARIFYING, given |-> given, counter |-> counter,
          asked |-> Append(asked, GeneratedText(gen, "questions")),
          response |-> generate_questions(p, GeneratedText(gen, "questions"))]

\* the turn counted in quiet_turns
QuietTurn(message, before, after) == ~CareerTable[message] /\ before = after

Saturate(n) == IF n > PatienceThreshold + 1 THEN PatienceThreshold + 1 ELSE n

\* process_message(message): the extraction call has endpoint outcome o1 and
\* parsed object api_delta, the generation call has endpoint outcome o2
ProcessMessage(message, o1, api_delta) ==
  LET history1 == trim_history(
                    Append(conversation_history, Turn("student", message, state)),
                    max_history)
      profile_snapshot == snapshot(profile)
      gen1 == generate_response(use_fallback, o1)
      extracted_info == extract_info(message, gen1, api_delta)
      career == CareerTable[message]
  IN \E merged \in {update_profile(profile, extracted_info)} :
       /\ profile' = merged.profile
       /\ quiet_turns' = IF QuietTurn(message, profile, merged.profile)
                         THEN Saturate(quiet_turns + 1) ELSE 0
       /\ UNCHANGED <<max_history, limiter_vars, fallback_call>>
       /\ IF merged.raised
          THEN \* the except branch of process_message
               /\ max_history = 0 => Len(history1) <= MaxKept
               /\ conversation_history' = history1
               /\ use_fallback' = gen1.use_fallback
               /\ response' = process_message_returns(TRUE, state, NoResponse)
               /\ observed' = observe(observed, <<o1, "not called">>, FALSE,
                                      merged.profile)
               /\ call' = [op |-> "process_message", message |-> message,
                           rule |-> "error", counter |-> consecutive_clarifying]
               /\ UNCHANGED <<state, asked_questions, consecutive_clarifying,
                              recommendations_given>>
          ELSE LET counter == update_counter(
                                consecutive_clarifying,
                                has_changed(merged.profile, profile_snapshot), career)
                   rule == select_rule(state, career, completeness(merged.profile),
                                       recommendations_given, counter)
               IN \E o2 \in (IF rule = "greeting" THEN {"not called"}
                             ELSE Outcomes(gen1.use_fallback)) :
                    LET gen2 == IF rule = "greeting" THEN gen1
                                ELSE generate_response(gen1.use_fallback, o2)
                    IN \E out \in {generate_response_for(
                                     rule, merged.profile, counter,
                                     recommendations_given, asked_questions, gen2)} :
                         /\ counter <= MaxCounter
                         /\ Len(out.asked) <= MaxAsked
                         /\ max_history = 0 => Len(history1) + 1 <= MaxKept
                         /\ state' = out.state
                         /\ recommendations_given' = out.given
                         /\ consecutive_clarifying' = out.counter
                         /\ asked_questions' = out.asked
                         /\ use_fallback' = gen2.use_fallback
                         /\ conversation_history' =
                              trim_history(
                                Append(history1,
                                       Turn("counselor", out.response.content, out.state)),
                                max_history)
                         /\ response' = process_message_returns(FALSE, out.state, out.response)
                         /\ observed' = observe(observed, <<o1, o2>>,
                                                out.response.type = "recommendations",
                                                merged.profile)
                         /\ call' = [op |-> "process_message", message |-> message,
                                     rule |-> rule, counter |-> counter]

\* what the extraction call can parse, given the endpoint outcome
ParsedObjects(fallback_mode, o1) ==
  IF generate_response(fallback_mode, o1).api THEN ApiDeltas ELSE {EmptyDelta}

\* ------------------------------------------------------------------------
\* reset
\* ------------------------------------------------------------------------
\* a reset() without line 805
Reset_KeepsCounter ==
  /\ call.op # "reset"
  /\ profile' = StudentProfile
  /\ state' = GREETING
  /\ conversation_history' = <<>>
  /\ asked_questions' = <<>>
  /\ recommendations_given' = FALSE
  /\ quiet_turns' = 0
  /\ observed' = observe_reset(observed)
  /\ call' = [op |-> "reset", message |-> "", rule |-> "none", counter |-> 0]
  /\ UNCHANGED <<max_history, use_fallback, response, limiter_vars, fallback_call,
                 consecutive_clarifying>>

Reset ==
  /\ call.op # "reset"
  /\ profile' = StudentProfile
  /\ state' = GREETING
  /\ conversation_history' = <<>>
  /\ asked_questions' = <<>>
  /\ consecutive_clarifying' = 0
  /\ recommendations_given' = FALSE
  /\ quiet_turns' = 0
  /\ observed' = observe_reset(observed)
  /\ call' = [op |-> "reset", message |-> "", rule |-> "none", counter |-> 0]
  /\ UNCHANGED <<max_history, use_fallback, response, limiter_vars, fallback_call>>

Next ==
  \/ \E message \in Messages, o1 \in Outcomes(use_fallback) :
       \E api_delta \in ParsedObjects(use_fallback, o1) :
         ProcessMessage(message, o1, api_delta)
  \/ Reset

Spec == Init /\ [][Next]_vars

\* ------------------------------------------------------------------------
\* SimpleRateLimiter and FreeLLMClient: the generation path
\* ------------------------------------------------------------------------
session_vars == <<state, profile, conversation_history, asked_questions,
                  consecutive_clarifying, max_history, recommendations_given,
                  use_fallback, response, call, quiet_turns, observed>>

\* the rolling window of wait_if_needed, in seconds
Window == 60

\* how far the clock moves between two events
ClockSteps == {30}

\* the last time explored
MaxClock == MaxTicks * 30

\* line 525: the timestamps younger than the window
recent(reqs, now) == SelectSeq(reqs, LAMBDA t : now - t < Window)

\* line 528 with the sign of the age reversed
sleep_time_AgeAdded(reqs, now) == Window + (now - reqs[1])

\* line 528, for the filtered list
sleep_time(reqs, now) == Window - (now - reqs[1])

\* what the endpoint answers to the session's client, which contacts it
\* only while use_fallback is false
Replies(fallback_mode) == IF fallback_mode THEN {"not called"} ELSE EndpointReplies

\* wait_if_needed returns to session a, whose call read the clock at now
\* and slept for slept seconds, and the session calls generate_response
\* (no await lies between the two): line 532, then lines 68-82
Proceed(a, reqs, now, full, slept, reply) ==
  LET gen == generate_response(
               clients[a],
               IF clients[a] THEN "not called" ELSE reply_outcome(reply))
  IN /\ requests' = [requests EXCEPT ![a] = Append(reqs, now)]
     /\ sleeping' = [sleeping EXCEPT ![a] = NotSleeping]
     /\ released' = [released EXCEPT ![a] = Append(released[a], clock)]
     /\ clients' = [clients EXCEPT ![a] = gen.use_fallback]
     /\ generation' = [session |-> a, now |-> now, full |-> full,
                        sleep_time |-> slept, reply |-> reply,
                        api |-> gen.api, raised |-> gen.raised]
     /\ UNCHANGED <<clock, rpm>>

\* wait_if_needed, called by session a, up to its return or to the
\* asyncio.sleep of line 530 (a session awaits one call at a time)
WaitIfNeeded(a, reply) ==
  LET now == clock
      kept == recent(requests[a], now)
      full == Len(kept) >= rpm
  IN /\ ~sleeping[a].on
     /\ now + Window <= MaxClock
     /\ IF full /\ sleep_time(kept, now) > 0
        THEN /\ requests' = [requests EXCEPT ![a] = kept]
             /\ sleeping' = [sleeping EXCEPT ![a] =
                               [now |-> now, wake |-> now + sleep_time(kept, now),
                                sleep_time |-> sleep_time(kept, now), on |-> TRUE]]
             /\ UNCHANGED <<clock, rpm, clients, released, generation>>
        ELSE Proceed(a, kept, now, full, 0, reply)
     /\ UNCHANGED <<session_vars, fallback_call>>

\* asyncio.sleep is over: the call of session a goes on at line 532
WakeUp(a, reply) ==
  /\ sleeping[a].on
  /\ clock >= sleeping[a].wake
  /\ Proceed(a, requests[a], sleeping[a].now, TRUE, sleeping[a].sleep_time, reply)
  /\ UNCHANGED <<session_vars, fallback_call>>

\* time passes; releases older than the window leave the record
Tick(dt) ==
  /\ clock + dt <= MaxClock
  /\ clock' = clock + dt
  /\ released' = [a \in Sessions |->
                    SelectSeq(released[a], LAMBDA t : clock + dt - t < Window)]
  /\ UNCHANGED <<rpm, requests, sleeping, clients, generation>>
  /\ UNCHANGED <<session_vars, fallback_call>>

LimiterInit ==
  /\ \E r \in 1..MaxRpm : LimiterIdle(r)
  /\ fallback_call = NoFallbackCall
  /\ observed = NotObserved
  /\ state = GREETING
  /\ profile = StudentProfile
  /\ conversation_history = <<>>
  /\ asked_questions = <<>>
  /\ consecutive_clarifying = 0
  /\ max_history = MaxHistory
  /\ recommendations_given = FALSE
  /\ use_fallback = FALSE
  /\ response = NoResponse
  /\ call = [op |-> "init", message |-> "", rule |-> "none", counter |-> 0]
  /\ quiet_turns = 0

LimiterNext ==
  \/ \E a \in Sessions : \E reply \in Replies(clients[a]) : WaitIfNeeded(a, reply)
  \/ \E a \in Sessions : \E reply \in Replies(clients[a]) : WakeUp(a, reply)
  \/ \E dt \in ClockSteps : Tick(dt)

LimiterSpec == LimiterInit /\ [][LimiterNext]_vars

\* the event loop: time passes, and a coroutine whose sleep is over is
\* resumed
LimiterFairSpec ==
  /\ LimiterSpec
  /\ WF_vars(\E dt \in ClockSteps : Tick(dt))
  /\ \A a \in Sessions :
       WF_vars(\E reply \in Replies(clients[a]) : WakeUp(a, reply))

\* ------------------------------------------------------------------------
\* FreeLLMClient._fallback_generation and the prompts it is given
\* ------------------------------------------------------------------------
\* ', '.join(items)
RECURSIVE JoinComma(_)
JoinComma(items) ==
  IF items = <<>> THEN <<>>
  ELSE IF Len(items) = 1 THEN items[1]
       ELSE items[1] \o <<",", " ">> \o JoinComma(Tail(items))

\* ', '.join(items) or default
JoinOr(items, default) ==
  IF JoinComma(items) = <<>> THEN default ELSE JoinComma(items)

NoneSpecified == <<"N", "o", "n", "e", " ", "s", "p", "e", "c", "i", "f", "i", "e", "d">>
Unknown == <<"U", "n", "k", "n", "o", "w", "n">>

\* DynamicPrompts.generate_recommendations: the text around the four lists
RecommendPromptHead ==
  <<"R", "e", "c", "o", "m", "m", "e", "n", "d", " ", "3", "-", "4", " ", "s", "p", "e", "c", "i", "f", "i", "c", " ", "c", "a", "r", "e", "e", "r", "s", " ", "f", "o", "r", " ", "t", "h", "i", "s", " ", "s", "t", "u", "d", "e", "n", "t", ":", "\n", "\n", "P", "r", "o", "f", "i", "l", "e", ":", "\n", "-", " ", "I", "n", "t", "e", "r", "e", "s", "t", "s", ":", " ">>
RecommendPromptHobbies == <<"\n", "-", " ", "H", "o", "b", "b", "i", "e", "s", ":", " ">>
RecommendPromptSubjects == <<"\n", "-", " ", "S", "u", "b", "j", "e", "c", "t", "s", ":", " ">>
RecommendPromptStrengths == <<"\n", "-", " ", "S", "t", "r", "e", "n", "g", "t", "h", "s", ":", " ">>
RecommendPromptTail ==
  <<"\n", "\n", "C", "R", "I", "T", "I", "C", "A", "L", ":", " ", "M", "a", "t", "c", "h", " ", "c", "a", "r", "e", "e", "r", "s", " ", "d", "i", "r", "e", "c", "t", "l", "y", " ", "t", "o", " ", "t", "h", "e", "i", "r", " ", "s", "p", "e", "c", "i", "f", "i", "c", " ", "i", "n", "t", "e", "r", "e", "s", "t", "s", ".", " ", "\n", "\n", "F", "o", "r", " ", "e", "a", "c", "h", " ", "c", "a", "r", "e", "e", "r", " ", "p", "r", "o", "v", "i", "d", "e", ":", "\n", "1", ".", " ", "C", "a", "r", "e", "e", "r", " ", "t", "i", "t", "l", "e", "\n", "2", ".", " ", "W", "h", "y", " ", "i", "t", " ", "m", "a", "t", "c", "h", "e", "s", " ", "t", "h", "e", "i", "r", " ", "i", "n", "t", "e", "r", "e", "s", "t", "s", " ", "(", "b", "e", " ", "s", "p", "e", "c", "i", "f", "i", "c", ")", "\n", "3", ".", " ", "B", "r", "i", "e", "f", " ", "e", "d", "u", "c", "a", "t", "i", "o", "n", " ", "o", "v", "e", "r", "v", "i", "e", "w", "\n", "4", ".", " ", "O", "n", "e", " ", "n", "e", "x", "t", " ", "s", "t", "e", "p", " ", "t", "h", "e", "y", " ", "c", "o", "u", "l", "d", " ", "t", "a", "k", "e", "\n", "\n", "K", "e", "e", "p", " ", "r", "e", "c", "o", "m", "m", "e", "n", "d", "a", "t", "i", "o", "n", "s", " ", "p", "r", "a", "c", "t", "i", "c", "a", "l", " ", "a", "n", "d", " ", "a", "c", "h", "i", "e", "v", "a", "b", "l", "e", ".">>

\* DynamicPrompts.generate_recommendations(profile)
recommendations_prompt(p) ==
  RecommendPromptHead \o JoinOr(p.interests, NoneSpecified)
    \o RecommendPromptHobbies \o JoinOr(p.hobbies, NoneSpecified)
    \o RecommendPromptSubjects \o JoinOr(p.subjects, NoneSpecified)
    \o RecommendPromptStrengths \o JoinOr(p.strengths, NoneSpecified)
    \o RecommendPromptTail

\* repr() of a list of strings that hold no quote, backslash or control
\* character
RECURSIVE ReprItems(_)
ReprItems(items) ==
  IF items = <<>> THEN <<>>
  ELSE <<"'">> \o items[1] \o <<"'">>
       \o (IF Len(items) = 1 THEN <<>> ELSE <<",", " ">>)
       \o ReprItems(Tail(items))

\* the names of the profile's fields, as text
CategoryChars ==
  [interests |-> <<"i", "n", "t", "e", "r", "e", "s", "t", "s">>, hobbies |-> <<"h", "o", "b", "b", "i", "e", "s">>, subjects |-> <<"s", "u", "b", "j", "e", "c", "t", "s">>,
   strengths |-> <<"s", "t", "r", "e", "n", "g", "t", "h", "s">>, dislikes |-> <<"d", "i", "s", "l", "i", "k", "e", "s">>,
   personality |-> <<"p", "e", "r", "s", "o", "n", "a", "l", "i", "t", "y">>, goals |-> <<"g", "o", "a", "l", "s">>]

\* repr(profile.__dict__), the fields in the order of the dataclass
RECURSIVE ReprFields(_, _)
ReprFields(p, i) ==
  IF i > Len(Categories) THEN <<>>
  ELSE <<"'">> \o CategoryChars[Categories[i]] \o <<"'", ":", " ", "[">>
       \o ReprItems(p[Categories[i]]) \o <<"]">>
       \o (IF i = Len(Categories) THEN <<>> ELSE <<",", " ">>)
       \o ReprFields(p, i + 1)

ReprDict(p) == <<"{">> \o ReprFields(p, 1) \o <<"}">>

\* DynamicPrompts.handle_general_conversation: the text around the message
\* and the profile
ConversationPromptHead == <<"T", "h", "e", " ", "s", "t", "u", "d", "e", "n", "t", " ", "s", "a", "i", "d", ":", " ", "\"">>
ConversationPromptProfile == <<"\"", "\n", "\n", "C", "u", "r", "r", "e", "n", "t", " ", "p", "r", "o", "f", "i", "l", "e", ":", " ">>
ConversationPromptTail ==
  <<"\n", "\n", "R", "e", "s", "p", "o", "n", "d", " ", "n", "a", "t", "u", "r", "a", "l", "l", "y", " ", "a", "s", " ", "a", " ", "c", "a", "r", "e", "e", "r", " ", "c", "o", "u", "n", "s", "e", "l", "o", "r", ".", " ", "I", "f", " ", "t", "h", "e", "y", "'", "r", "e", " ", "a", "s", "k", "i", "n", "g", " ", "q", "u", "e", "s", "t", "i", "o", "n", "s", ",", " ", "b", "e", "i", "n", "g", " ", "c", "a", "s", "u", "a", "l", ",", " ", "o", "r", " ", "d", "i", "s", "c", "u", "s", "s", "i", "n", "g", " ", "n", "o", "n", "-", "c", "a", "r", "e", "e", "r", " ", "t", "o", "p", "i", "c", "s", ",", " ", "e", "n", "g", "a", "g", "e", " ", "a", "p", "p", "r", "o", "p", "r", "i", "a", "t", "e", "l", "y", " ", "w", "h", "i", "l", "e", " ", "g", "e", "n", "t", "l", "y", " ", "s", "t", "e", "e", "r", "i", "n", "g", " ", "t", "o", "w", "a", "r", "d", " ", "c", "a", "r", "e", "e", "r", " ", "e", "x", "p", "l", "o", "r", "a", "t", "i", "o", "n", " ", "w", "h", "e", "n", " ", "n", "a", "t", "u", "r", "a", "l", ".", "\n", "\n", "B", "e", " ", "c", "o", "n", "v", "e", "r", "s", "a", "t", "i", "o", "n", "a", "l", " ", "a", "n", "d", " ", "h", "e", "l", "p", "f", "u", "l", ".", " ", "D", "o", "n", "'", "t", " ", "f", "o", "r", "c", "e", " ", "c", "a", "r", "e", "e", "r", " ", "q", "u", "e", "s", "t", "i", "o", "n", "s", " ", "i", "f", " ", "t", "h", "e", "y", "'", "r", "e", " ", "a", "s", "k", "i", "n", "g", " ", "s", "o", "m", "e", "t", "h", "i", "n", "g", " ", "e", "l", "s", "e", ".">>

\* DynamicPrompts.handle_general_conversation(message, profile)
conversation_prompt(message, p) ==
  ConversationPromptHead \o message \o ConversationPromptProfile
    \o ReprDict(p) \o ConversationPromptTail

\* str.replace(sub, ""), from position i on
RECURSIVE Remove(_, _, _)
Remove(sub, s, i) ==
  IF i > Len(s) THEN <<>>
  ELSE IF MatchAt(sub, s, i) THEN Remove(sub, s, i + Len(sub))
       ELSE <<s[i]>> \o Remove(sub, s, i + 1)

\* str.split(","), from position i on
RECURSIVE SplitComma(_, _)
SplitComma(s, i) ==
  LET commas == {j \in i..Len(s) : s[j] = ","}
  IN IF commas = {} THEN <<SubSeq(s, i, Len(s))>>
     ELSE <<SubSeq(s, i, MinOf(commas) - 1)>> \o SplitComma(s, MinOf(commas) + 1)

\* [item.strip() for item in items if item.strip()]
RECURSIVE StripItems(_)
StripItems(items) ==
  IF items = <<>> THEN <<>>
  ELSE (IF Strip(items[1]) = <<>> THEN <<>> ELSE <<Strip(items[1])>>)
       \o StripItems(Tail(items))

\* _extract_list_from_prompt: the first "<field_name>: " of the prompt, the
\* text from there to the end of the line, without the two placeholders,
\* split at commas
extract_list_from_prompt(prompt, field_name) ==
  LET key == field_name \o <<":", " ">>
      starts == {i \in 1..Len(prompt) : MatchAt(key, prompt, i)}
  IN IF starts = {} THEN <<>>
     ELSE LET from == MinOf(starts) + Len(key)
              stop == MinOf({j \in from..(Len(prompt) + 1) :
                               j = Len(prompt) + 1 \/ prompt[j] = "\n"})
              items == Remove(Unknown,
                              Remove(NoneSpecified, SubSeq(prompt, from, stop - 1), 1),
                              1)
          IN StripItems(SplitComma(items, 1))

\* any(word in text for word in words)
AnyIn(words, text) == \E k \in 1..Len(words) : Contains(words[k], text)

\* the keyword clusters of _generate_recommendations_fallback in the order
\* of its if/elif cascade, each with the titles of its records
recommendation_clusters ==
  << [keywords |-> <<<<"b", "i", "o", "l", "o", "g", "y">>, <<"l", "i", "f", "e", " ", "s", "c", "i", "e", "n", "c", "e">>, <<"l", "i", "v", "i", "n", "g", " ", "t", "h", "i", "n", "g", "s">>, <<"a", "n", "i", "m", "a", "l", "s">>,
                     <<"p", "l", "a", "n", "t", "s">>, <<"g", "e", "n", "e", "t", "i", "c", "s">>, <<"e", "c", "o", "l", "o", "g", "y">>, <<"n", "a", "t", "u", "r", "e">>>>,
      titles |-> <<"Biologist/Research Scientist",
                   "Healthcare Professional (Doctor/Nurse)",
                   "Environmental Scientist">>],
     [keywords |-> <<<<"m", "e", "d", "i", "c", "i", "n", "e">>, <<"d", "o", "c", "t", "o", "r">>, <<"h", "e", "a", "l", "t", "h">>, <<"m", "e", "d", "i", "c", "a", "l">>, <<"a", "n", "a", "t", "o", "m", "y">>,
                     <<"p", "h", "y", "s", "i", "o", "l", "o", "g", "y">>>>,
      titles |-> <<"Medical Doctor", "Physical Therapist">>],
     [keywords |-> <<<<"c", "h", "e", "m", "i", "s", "t", "r", "y">>, <<"c", "h", "e", "m", "i", "c", "a", "l">>, <<"r", "e", "a", "c", "t", "i", "o", "n", "s">>, <<"c", "o", "m", "p", "o", "u", "n", "d", "s">>,
                     <<"l", "a", "b", " ", "w", "o", "r", "k">>>>,
      titles |-> <<"Chemist", "Pharmaceutical Scientist">>],
     [keywords |-> <<<<"p", "h", "y", "s", "i", "c", "s">>, <<"m", "a", "t", "h">>, <<"e", "n", "g", "i", "n", "e", "e", "r", "i", "n", "g">>, <<"m", "e", "c", "h", "a", "n", "i", "c", "a", "l">>,
                     <<"e", "l", "e", "c", "t", "r", "i", "c", "a", "l">>, <<"s", "o", "f", "t", "w", "a", "r", "e">>, <<"c", "o", "m", "p", "u", "t", "e", "r">>>>,
      titles |-> <<>>],   \* see engineering_titles
     [keywords |-> <<<<"a", "r", "t">>, <<"c", "r", "e", "a", "t", "i", "v", "e">>, <<"d", "e", "s", "i", "g", "n">>, <<"d", "r", "a", "w", "i", "n", "g">>, <<"p", "a", "i", "n", "t", "i", "n", "g">>,
                     <<"m", "u", "s", "i", "c">>, <<"w", "r", "i", "t", "i", "n", "g">>>>,
      titles |-> <<"Graphic Designer", "Creative Professional">>],
     [keywords |-> <<<<"p", "s", "y", "c", "h", "o", "l", "o", "g", "y">>, <<"p", "e", "o", "p", "l", "e">>, <<"h", "e", "l", "p">>, <<"s", "o", "c", "i", "a", "l">>, <<"c", "o", "u", "n", "s", "e", "l", "i", "n", "g">>,
                     <<"t", "h", "e", "r", "a", "p", "y">>>>,
      titles |-> <<"Psychologist/Counselor", "Social Worker">>],
     [keywords |-> <<<<"b", "u", "s", "i", "n", "e", "s", "s">>, <<"m", "a", "n", "a", "g", "e", "m", "e", "n", "t">>, <<"m", "a", "r", "k", "e", "t", "i", "n", "g">>, <<"f", "i", "n", "a", "n", "c", "e">>,
                     <<"e", "c", "o", "n", "o", "m", "i", "c", "s">>>>,
      titles |-> <<"Business Professional">>],
     [keywords |-> <<<<"t", "e", "a", "c", "h", "i", "n", "g">>, <<"e", "d", "u", "c", "a", "t", "i", "o", "n">>, <<"e", "x", "p", "l", "a", "i", "n">>, <<"t", "u", "t", "o", "r">>>>,
      titles |-> <<"Teacher/Educator">>] >>

\* the position of the physics/engineering cluster in the cascade
EngineeringCluster == 4

SoftwareWords == <<<<"s", "o", "f", "t", "w", "a", "r", "e">>, <<"c", "o", "m", "p", "u", "t", "e", "r">>, <<"p", "r", "o", "g", "r", "a", "m", "m", "i", "n", "g">>>>

\* an engineering branch without the test of line 336: the generic record
\* for every match of the cluster
engineering_titles_Generic(all_text) == <<"Engineer">>

\* lines 336-349: the one record of the physics/engineering cluster
engineering_titles(all_text) ==
  IF AnyIn(SoftwareWords, all_text) THEN <<"Software Engineer">> ELSE <<"Engineer">>

\* recommendations[:3]
FirstThree(records) ==
  IF Len(records) > 3 THEN SubSeq(records, 1, 3) ELSE records

\* lines 274-412: the titles of the records selected for all_text
select_recommendations(all_text) ==
  LET hits == {k \in 1..Len(recommendation_clusters) :
                 AnyIn(recommendation_clusters[k].keywords, all_text)}
  IN IF hits = {} THEN <<"Explore Multiple Paths">>
     ELSE IF MinOf(hits) = EngineeringCluster THEN engineering_titles(all_text)
     ELSE recommendation_clusters[MinOf(hits)].titles

\* " ".join(interests + subjects + hobbies).lower() of the lists read back
\* from the prompt
prompt_all_text(prompt) ==
  Lower(JoinSpace(extract_list_from_prompt(prompt, <<"I", "n", "t", "e", "r", "e", "s", "t", "s">>)
                  \o extract_list_from_prompt(prompt, <<"S", "u", "b", "j", "e", "c", "t", "s">>)
                  \o extract_list_from_prompt(prompt, <<"H", "o", "b", "b", "i", "e", "s">>)))

\* _generate_recommendations_fallback: the titles of the records it formats,
\* in order
generate_recommendations_fallback(prompt) ==
  FirstThree(select_recommendations(prompt_all_text(prompt)))

\* the branch _fallback_generation takes for prompt (lines 120-136)
fallback_branch(prompt) ==
  LET prompt_lower == Lower(prompt)
  IN IF Contains(<<"e", "x", "t", "r", "a", "c", "t", " ", "s", "t", "u", "d", "e", "n", "t", " ", "i", "n", "f", "o", "r", "m", "a", "t", "i", "o", "n">>, prompt_lower)
     THEN "extract_info_fallback"
     ELSE IF Contains(<<"a", "s", "k">>, prompt_lower) /\ Contains(<<"q", "u", "e", "s", "t", "i", "o", "n">>, prompt_lower)
          THEN "generate_questions_fallback"
          ELSE IF Contains(<<"r", "e", "c", "o", "m", "m", "e", "n", "d">>, prompt_lower) /\ Contains(<<"c", "a", "r", "e", "e", "r">>, prompt_lower)
               THEN "generate_recommendations_fallback"
               ELSE "general_conversation_fallback"

\* _fallback_generation: [branch, titles]; titles are the record titles when
\* the recommendations branch produced the text (the two random.choice
\* branches return one of their fixed sentences)
fallback_generation(prompt) ==
  LET branch == fallback_branch(prompt)
  IN [branch |-> branch,
      titles |-> IF branch = "generate_recommendations_fallback"
                 THEN generate_recommendations_fallback(prompt) ELSE <<>>]

\* ------------------------------------------------------------------------
\* The generation calls of a session whose gateway is in fallback mode
\* ------------------------------------------------------------------------
\* profile items the calls are explored with
ItemSoftware == <<"s", "o", "f", "t", "w", "a", "r", "e">>
ItemComputer == <<"C", "o", "m", "p", "u", "t", "e", "r">>
ItemBiology == <<"b", "i", "o", "l", "o", "g", "y">>
ItemMath == <<"m", "a", "t", "h">>

ItemPool == {ItemSoftware, ItemComputer, ItemBiology, ItemMath}

\* the lists of at most n items of the pool that _update_profile can have
\* built (no two items equal up to case)
ListsUpTo(n) ==
  {list \in UNION {[1..k -> ItemPool] : k \in 0..n} :
     \A i, j \in 1..Len(list) : i # j => Lower(list[i]) # Lower(list[j])}

\* the profiles the calls are explored with: up to MaxItems interests, at
\* most one subject and one hobby
FallbackProfiles ==
  {Fields([c \in CategorySet |->
             CASE c = "interests" -> lists[1]
               [] c = "subjects" -> lists[2]
               [] c = "hobbies" -> lists[3]
               [] OTHER -> <<>>]) :
     lists \in ListsUpTo(MaxItems) \X ListsUpTo(1) \X ListsUpTo(1)}

\* _generate_recommendations (lines 763-764) with use_fallback set:
\* generate_response returns _fallback_generation(prompt)
GenerateRecommendationsFallback(p) ==
  /\ fallback_call.op = "idle"
  /\ fallback_call' =
       [op |-> "generate_recommendations", message |-> "", profile |-> p,
        generated |-> fallback_generation(recommendations_prompt(p))]
  /\ UNCHANGED <<session_vars, limiter_vars>>

\* _handle_discussion (lines 700-701) with use_fallback set
HandleDiscussionFallback(message, p) ==
  /\ fallback_call.op = "idle"
  /\ fallback_call' =
       [op |-> "handle_discussion", message |-> message, profile |-> p,
        generated |-> fallback_generation(conversation_prompt(Chars[message], p))]
  /\ UNCHANGED <<session_vars, limiter_vars>>

\* the call returns to process_message
FallbackReturn ==
  /\ fallback_call.op # "idle"
  /\ fallback_call' = NoFallbackCall
  /\ UNCHANGED <<session_vars, limiter_vars>>

FallbackInit ==
  /\ LimiterIdle(MaxRpm)
  /\ fallback_call = NoFallbackCall
  /\ observed = NotObserved
  /\ state = DISCUSSING
  /\ profile = StudentProfile
  /\ conversation_history = <<>>
  /\ asked_questions = <<>>
  /\ consecutive_clarifying = 0
  /\ max_history = MaxHistory
  /\ recommendations_given = TRUE
  /\ use_fallback = TRUE
  /\ response = NoResponse
  /\ call = [op |-> "init", message |-> "", rule |-> "none", counter |-> 0]
  /\ quiet_turns = 0

FallbackNext ==
  \/ \E p \in FallbackProfiles : GenerateRecommendationsFallback(p)
  \/ \E message \in Messages, p \in FallbackProfiles :
       HandleDiscussionFallback(message, p)
  \/ FallbackReturn

FallbackSpec == FallbackInit /\ [][FallbackNext]_vars

\* ------------------------------------------------------------------------
\* The session as seen by a caller that keeps the responses
\* ------------------------------------------------------------------------
ObservedInit ==
  /\ LimiterIdle(MaxRpm)
  /\ fallback_call = NoFallbackCall
  /\ observed = Observing
  /\ state = GREETING
  /\ profile = StudentProfile
  /\ conversation_history = <<>>
  /\ asked_questions = <<>>
  /\ consecutive_clarifying = 0
  /\ max_history = MaxHistory
  /\ recommendations_given = FALSE
  /\ use_fallback = FALSE
  /\ response = NoResponse
  /\ call = [op |-> "init", message |-> "", rule |-> "none", counter |-> 0]
  /\ quiet_turns = 0

\* the objects the observed session's extraction calls are explored with:
\* no object, and the first well-formed delta (every merge succeeds)
ObservedObjects(fallback_mode, o1) ==
  ParsedObjects(fallback_mode, o1) \cap
    {EmptyDelta, Delta(<< <<"interests", List(<<Str(ItemArt), Str(ItemArtCap)>>)>> >>)}

ObservedNext ==
  \/ \E message \in Messages, o1 \in Outcomes(use_fallback) :
       \E api_delta \in ObservedObjects(use_fallback, o1) :
         ProcessMessage(message, o1, api_delta)
  \/ Reset

ObservedSpec == ObservedInit /\ [][ObservedNext]_vars

\* ------------------------------------------------------------------------
\* Properties
\* ------------------------------------------------------------------------
\* the step is a process_message call
IsTurn == call'.op = "process_message"

\* the message of the call is career-question-like and the profile it
\* leaves has completeness > 0
QualifyingQuestion == CareerTable[call'.message] /\ completeness(profile') > 0

GivesRecommendations ==
  /\ response'.type = "recommendations"
  /\ state' = DISCUSSING
  /\ recommendations_given' = TRUE

\* C1: whenever the state is Greeting, process_message on any message,
\* whatever was extracted from it, returns a greeting, ends in GatheringInfo
\* and leaves recommendations_given false.
C1_GreetingAlwaysGreets ==
  [][(IsTurn /\ state = GREETING) =>
       /\ response'.type = "greeting"
       /\ state' = GATHERING_INFO
       /\ recommendations_given' = FALSE]_vars

\* C2: in every non-Greeting state, a career-question-like message with
\* post-merge completeness > 0 returns recommendations, ends in Discussing
\* and sets recommendations_given.
C2_CareerQuestionRecommends ==
  [][(IsTurn /\ state \in {GATHERING_INFO, CLARIFYING, DISCUSSING} /\ QualifyingQuestion)
       => GivesRecommendations]_vars

\* C3: once Discussing, the state is Discussing after every later
\* process_message call, and a message in Discussing that is not a
\* qualifying career question returns a discussion response and changes
\* neither the state nor recommendations_given.
C3_DiscussingSteady ==
  [][(IsTurn /\ state = DISCUSSING) =>
       /\ state' = DISCUSSING
       /\ ~QualifyingQuestion =>
            /\ response'.type = "discussion"
            /\ recommendations_given' = recommendations_given]_vars

\* C4: in GatheringInfo or Clarifying, a message that is not a qualifying
\* career question, with post-merge completeness >= 0.5 and no
\* recommendations given yet, returns recommendations, ends in Discussing
\* and sets recommendations_given.
C4_ThresholdRecommends ==
  [][(/\ IsTurn
      /\ state \in {GATHERING_INFO, CLARIFYING}
      /\ ~QualifyingQuestion
      /\ completeness(profile') >= RecommendThreshold
      /\ ~recommendations_given)
       => GivesRecommendations]_vars

\* C5: after 4 consecutive messages that add no profile information and hold
\* no career keyword, recommendations have been given and the state is
\* Discussing; the patience rule gives recommendations whatever the
\* completeness, fires only while no recommendations were given (so at most
\* once between resets) and leaves the counter at 0.
C5_PatienceForcesRecommendations ==
  /\ [](quiet_turns >= PatienceThreshold + 1 =>
          recommendations_given /\ state = DISCUSSING)
  /\ [][(IsTurn /\ call'.rule = "patience") =>
          /\ ~recommendations_given
          /\ GivesRecommendations
          /\ consecutive_clarifying' = 0]_vars
  /\ [][(IsTurn /\ recommendations_given) =>
          recommendations_given' /\ call'.rule # "patience"]_vars

\* C6: in GatheringInfo or Clarifying, when no recommendation rule applies
\* (no qualifying career question, completeness < 0.5 or recommendations
\* already given, counter <= 3), process_message returns questions, ends in
\* Clarifying and leaves recommendations_given unchanged.
C6_DefaultClarifies ==
  [][(/\ IsTurn
      /\ state \in {GATHERING_INFO, CLARIFYING}
      /\ ~QualifyingQuestion
      /\ (completeness(profile') < RecommendThreshold \/ recommendations_given)
      /\ call'.counter <= PatienceThreshold)
       => /\ response'.type = "questions"
          /\ state' = CLARIFYING
          /\ recommendations_given' = recommendations_given]_vars

ResponseKinds == {"greeting", "questions", "recommendations", "discussion", "fallback"}

MetadataKeys == {"completeness", "profile_summary", "error", "fallback"}

\* C7: process_message never raises to its caller: whatever the endpoint
\* does and whatever object is extracted, it returns a response with one of
\* the five kinds, a text and a metadata map, and leaves the session in a
\* state from which the next message can be processed.
C7_AlwaysStructuredResponse ==
  call.op = "process_message" =>
    /\ response.type \in ResponseKinds
    /\ response.content \in STRING
    /\ response.metadata.keys \subseteq MetadataKeys
    /\ state \in ConversationState \ {RECOMMENDING}
    /\ recommendations_given \in BOOLEAN
    /\ consecutive_clarifying \in Nat

\* reached: in the middle of a conversation an ill-typed object made the
\* merge raise, and the caller got the fallback response
C7_Witness ==
  /\ call.op = "process_message"
  /\ call.rule = "error"
  /\ state = DISCUSSING
  /\ response.type = "fallback"

\* C8: reset() in any state restores Greeting, an empty profile, an empty
\* history, recommendations_given false, counter 0 and an empty
\* asked-questions list, and the next processed message returns a greeting.
C8_ResetRestoresDefaults ==
  /\ [][call'.op = "reset" =>
          /\ state' = GREETING
          /\ \A c \in CategorySet : profile'[c] = <<>>
          /\ conversation_history' = <<>>
          /\ recommendations_given' = FALSE
          /\ consecutive_clarifying' = 0
          /\ asked_questions' = <<>>]_vars
  /\ [][(call.op = "reset" /\ IsTurn) => response'.type = "greeting"]_vars

\* C9: once recommendations_given is true, no message without a career
\* keyword gets a recommendations response (until reset clears the flag).
C9_NoUnsolicitedRepeat ==
  [][(IsTurn /\ recommendations_given /\ ~CareerTable[call'.message])
       => response'.type # "recommendations"]_vars

\* reached: a discussion turn without career keyword, at a completeness and
\* a counter value for which the threshold and patience rules would apply
C9_Witness ==
  /\ call.op = "process_message"
  /\ ~CareerTable[call.message]
  /\ recommendations_given
  /\ response.type = "discussion"
  /\ completeness(profile) >= RecommendThreshold
  /\ consecutive_clarifying > PatienceThreshold

NoCaseDuplicates(list) ==
  \A i, j \in 1..Len(list) : i # j => Lower(list[i]) # Lower(list[j])

\* C11: in every reachable state no category of the profile holds two
\* entries that are equal when compared case-insensitively.
C11_NoCaseInsensitiveDuplicates ==
  \A c \in CategorySet : NoCaseDuplicates(profile[c])

\* a delta that held "art" and "Art" was merged, and so was the delta that
\* holds "Art" next to the dislikes
C11_Witness ==
  /\ profile.interests = <<ItemArt>>
  /\ profile.dislikes = <<ItemNoise>>
  /\ Len(profile.hobbies) = 2

\* every object the model's extraction step can hand to _update_profile
ExtractedObjects == ApiDeltas \cup {FallbackDeltaTable[m] : m \in Messages}

\* C12: merging the same delta twice in a row gives the profile that merging
\* it once gives, entry for entry and in the same order, for every profile
\* the session can hold and every delta (those whose merge raises included).
C12_MergeIdempotent ==
  \A d \in ExtractedObjects :
    LET once == update_profile(profile, d).profile
    IN update_profile(once, d).profile = once

\* a profile that already holds entries and is changed by the first merge
\* of a well-formed delta and of one whose merge raises half-way
C12_Witness ==
  /\ call.op = "process_message"
  /\ profile.interests # <<>>
  /\ \E d \in ExtractedObjects :
       LET m == update_profile(profile, d)
       IN ~m.raised /\ m.profile # profile
  /\ \E d \in ExtractedObjects :
       LET m == update_profile(profile, d)
       IN m.raised /\ m.profile # profile

\* C13: completeness() lies in [0,1] (0..100 as a percentage) in every
\* reachable state, and no process_message call lowers it: between two
\* resets it never decreases.
C13_CompletenessMonotone ==
  /\ [](completeness(profile) \in 0..100)
  /\ [][IsTurn => completeness(profile') >= completeness(profile)]_vars

\* three of the four core fields were filled by successive calls
C13_Witness ==
  /\ call.op = "process_message"
  /\ completeness(profile) = 75

\* ------------------------------------------------------------------------
\* Response metadata
\* ------------------------------------------------------------------------
\* C14: the response of every process_message call, of whatever kind,
\* carries a completeness entry in its metadata, equal to the completeness
\* of the profile after the merge, as an integer percentage.
C14_MetadataCompleteness ==
  [][IsTurn => /\ "completeness" \in response'.metadata.keys
               /\ response'.metadata.completeness = completeness(profile')]_vars

\* the same for the responses that are neither greeting nor fallback
C14_GeneratedKindsCarryCompleteness ==
  [][(IsTurn /\ response'.type \notin {"greeting", "fallback"})
       => /\ "completeness" \in response'.metadata.keys
          /\ response'.metadata.completeness = completeness(profile')]_vars

\* the greeting alone, without any error turn before it
C14_GreetingCarriesCompleteness ==
  [][(IsTurn /\ response'.type = "greeting")
       => response'.metadata.completeness = completeness(profile')]_vars

\* ------------------------------------------------------------------------
\* History
\* ------------------------------------------------------------------------
\* the last n entries of s (all of s when it has fewer)
KeepLast(s, n) ==
  IF Len(s) <= n THEN s ELSE SubSeq(s, Len(s) - n + 1, Len(s))

\* the turns a process_message step appends: the student's, and the
\* counselor's unless the call ended in the except branch
AppendedTurns ==
  <<Turn("student", call'.message, state)>> \o
  (IF call'.rule = "error" THEN <<>>
   ELSE <<Turn("counselor", response'.content, state')>>)

\* C15: for every max_history >= 0, after every process_message call the
\* history holds at most max_history turns, and they are the most recent
\* ones in their original order.
C15_HistoryBounded ==
  /\ [](Len(conversation_history) <= max_history)
  /\ [][IsTurn => conversation_history' =
                    KeepLast(conversation_history \o AppendedTurns, max_history)]_vars

\* the same for a session constructed with max_history >= 1
C15_HistoryBoundedWhenPositive ==
  /\ [](max_history >= 1 => Len(conversation_history) <= max_history)
  /\ [][(IsTurn /\ max_history >= 1)
          => conversation_history' =
               KeepLast(conversation_history \o AppendedTurns, max_history)]_vars

\* ------------------------------------------------------------------------
\* Rate limiter
\* ------------------------------------------------------------------------
\* C16: of the calls made on one rate limiter, at most requests_per_minute
\* leave wait_if_needed within any rolling 60-second window (the clock is
\* non-decreasing; the window examined is the one that ends now).
C16_WindowCeiling ==
  \A a \in Sessions : Len(released[a]) <= rpm

\* a wait_if_needed call of session a returns in this step
Returns(a) == Len(released'[a]) > Len(released[a])

\* C17: a wait_if_needed call is never dropped or rejected: when the window
\* is full it sleeps more than 0 and at most 60 seconds, otherwise it does
\* not sleep; it records exactly one timestamp, the time it read at its
\* start; and every call that sleeps returns.
C17_OnlyDelays ==
  /\ [](generation.session \in Sessions =>
          IF generation.full
          THEN generation.sleep_time > 0 /\ generation.sleep_time <= Window
          ELSE generation.sleep_time = 0)
  /\ [][\A a \in Sessions :
          Returns(a) =>
            requests'[a] =
              Append(IF sleeping[a].on THEN requests[a]
                     ELSE recent(requests[a], clock),
                     generation'.now)]_vars
  /\ \A a \in Sessions : sleeping[a].on ~> ~sleeping[a].on

\* a call that found the window full returned after sleeping, once for the
\* whole window and once for half of it
C17_Witness ==
  /\ generation.full
  /\ generation.sleep_time = 30
  /\ \E a \in Sessions : Len(requests[a]) = 3

\* the calls of the sessions in S that left wait_if_needed in the window
RECURSIVE ReleasedBy(_)
ReleasedBy(S) ==
  IF S = {} THEN 0
  ELSE LET a == CHOOSE x \in S : TRUE
       IN Len(released[a]) + ReleasedBy(S \ {a})

\* C18: the sessions of one process share one rate limiter, so that the
\* calls of all sessions together that leave wait_if_needed within a
\* rolling 60-second window are at most requests_per_minute.
C18_ProcessWideCeiling == ReleasedBy(Sessions) <= rpm

\* ------------------------------------------------------------------------
\* Gateway
\* ------------------------------------------------------------------------
\* C19: generate_response never lets a failure of the endpoint out: for
\* every answer of the endpoint it returns a string, and when the endpoint
\* gave no text the string is the local fallback's.
C19_GatewayNeverPropagates ==
  generation.session \in Sessions =>
    /\ ~generation.raised
    /\ generation.reply # "200 text" => ~generation.api

\* the endpoint raised, the call returned the fallback's text and the
\* session's client is latched
C19_Witness ==
  /\ generation.session \in Sessions
  /\ generation.reply = "exception"
  /\ ~generation.api
  /\ clients[generation.session]

\* ------------------------------------------------------------------------
\* Determinism of the control outcome
\* ------------------------------------------------------------------------
\* the response kind and next state of process_message, computed from the
\* state, the profile, the counter, the flag, the message and what merging
\* the extracted object into the profile gave (merged: [profile, raised]);
\* the generated text is a fixed one
control_outcome(st, p, counter, given, message, merged) ==
  LET c == update_counter(counter, has_changed(merged.profile, snapshot(p)),
                          CareerTable[message])
      rule == select_rule(st, CareerTable[message], completeness(merged.profile),
                          given, c)
      out == generate_response_for(rule, merged.profile, c, given, <<>>,
                                   generate_response(TRUE, "not called"))
  IN IF merged.raised
     THEN [type |-> fallback_response(st).type, state |-> st]
     ELSE [type |-> out.response.type, state |-> out.state]

\* C20: the response kind and the next state of a process_message call are
\* a function of (state, profile, counter, recommendations_given), the
\* message and the extracted delta, which enters through its merge alone:
\* whatever the endpoint or the fallback templates return, whatever the
\* latch, the history and the questions asked so far, every call has the
\* outcome computed from those six.
C20_ControlOutcomeDeterministic ==
  [][IsTurn =>
       [type |-> response'.type, state |-> state'] =
         control_outcome(state, profile, consecutive_clarifying,
                         recommendations_given, call'.message,
                         [profile |-> profile', raised |-> call'.rule = "error"])]_vars

\* a clarifying turn answered with the endpoint's text by a session that
\* asked before, and one answered by the fallback templates after the latch
C20_Witness ==
  /\ call.rule = "clarify"
  /\ Len(asked_questions) = 2
  /\ asked_questions[1] = "endpoint text"
  /\ asked_questions[2] = "fallback_generation(questions prompt)"
  /\ use_fallback

\* ------------------------------------------------------------------------
\* Recommendation fallback
\* ------------------------------------------------------------------------
\* the recommendation fallback ran: what it computed all_text to be, and
\* the titles it returned
RecommendationFallbackRan ==
  /\ fallback_call.op = "generate_recommendations"
  /\ fallback_call.generated.branch = "generate_recommendations_fallback"

CallAllText == prompt_all_text(recommendations_prompt(fallback_call.profile))

HasSoftwareAndComputer ==
  /\ Contains(<<"s", "o", "f", "t", "w", "a", "r", "e">>, CallAllText)
  /\ Contains(<<"c", "o", "m", "p", "u", "t", "e", "r">>, CallAllText)

SoftwareRecordOnly ==
  /\ InSeq("Software Engineer", fallback_call.generated.titles)
  /\ ~InSeq("Engineer", fallback_call.generated.titles)

\* C21 as stated: whenever the lower-cased concatenation of interests,
\* subjects and hobbies contains both "software" and "computer", the
\* recommendation fallback returns the record titled "Software Engineer"
\* and not the generic "Engineer" record.
C21_SoftwareAndComputerSelectSoftware ==
  (RecommendationFallbackRan /\ HasSoftwareAndComputer) => SoftwareRecordOnly

\* a keyword of a cluster that precedes physics/engineering in the cascade
\* (biology/life sciences, medicine/health, chemistry) occurs in all_text
EarlierClusterMatches ==
  \E k \in 1..(EngineeringCluster - 1) :
    AnyIn(recommendation_clusters[k].keywords, CallAllText)

\* C21 amended: whenever all_text contains both "software" and "computer"
\* and no keyword of the biology, medicine or chemistry cluster, the
\* recommendation fallback returns the record titled "Software Engineer"
\* and not the generic "Engineer" record.
C21_SoftwareSelectedUnlessEarlierCluster ==
  (RecommendationFallbackRan /\ HasSoftwareAndComputer /\ ~EarlierClusterMatches)
    => SoftwareRecordOnly

\* the fallback ran for interests "software" and "Computer" and a subject
\* "math": the one record returned is the software one
C21_Witness ==
  /\ RecommendationFallbackRan
  /\ fallback_call.profile.interests = <<ItemSoftware, ItemComputer>>
  /\ fallback_call.profile.subjects = <<ItemMath>>
  /\ fallback_call.generated.titles = <<"Software Engineer">>

\* ------------------------------------------------------------------------
\* History and extraction
\* ------------------------------------------------------------------------
LastTurn == conversation_history[Len(conversation_history)]

\* the response just returned is the last entry of the history
ResponseIsLastTurn ==
  /\ conversation_history # <<>>
  /\ LastTurn.role = "counselor"
  /\ LastTurn.content = response.content

\* C22: when process_message has returned (in a session with
\* max_history >= 1), the last history entry is a counselor turn whose
\* content is the returned text, for a response of every kind.
C22_ResponseAppendedBeforeReturn ==
  (call.op = "process_message" /\ max_history >= 1) => ResponseIsLastTurn

\* the same for the responses that _generate_response produced
C22_GeneratedResponseAppended ==
  (call.op = "process_message" /\ max_history >= 1 /\ response.type # "fallback")
    => ResponseIsLastTurn

\* a process_message call whose extraction call got a text from the
\* endpoint in which no object was found or parsed (lines 619-627)
ParseFailureTurn ==
  \E message \in Messages, o1 \in Outcomes(use_fallback) :
    /\ generate_response(use_fallback, o1).api
    /\ ProcessMessage(message, o1, EmptyDelta)

\* C23: a turn whose extraction text holds no parsable object leaves the
\* profile unchanged, is counted as a turn without new information (the
\* counter is 0 for a career-worded message, else one more than before),
\* and returns a response that is not of kind fallback.
C23_ParseFailureIsEmptyDelta ==
  [][ParseFailureTurn =>
       /\ profile' = profile
       /\ call'.counter = IF CareerTable[call'.message] THEN 0
                          ELSE consecutive_clarifying + 1
       /\ response'.type \in ResponseKinds \ {"fallback"}]_vars

\* "writing" was processed with the endpoint answering the extraction call
\* (the keyword fallback would have added a subject and a hobby), nothing
\* was extracted, and the turn was counted and answered with questions
C23_Witness ==
  /\ call.op = "process_message"
  /\ call.message = "writing"
  /\ call.rule = "clarify"
  /\ call.counter = 2
  /\ profile = StudentProfile
  /\ response.type = "questions"

\* ------------------------------------------------------------------------
\* A session that keeps receiving messages and is never reset
\* ------------------------------------------------------------------------
MessageNext ==
  \E message \in Messages, o1 \in Outcomes(use_fallback) :
    \E api_delta \in ParsedObjects(use_fallback, o1) :
      ProcessMessage(message, o1, api_delta)

\* a session constructed with max_history = MaxHistory
BoundedHistoryInit == Init /\ max_history = MaxHistory

\* messages keep arriving
NoResetFairSpec ==
  /\ BoundedHistoryInit
  /\ [][MessageNext]_vars
  /\ WF_vars(MessageNext)

\* another message can always be processed within the bounds of the model
MessageAlwaysPossible == ENABLED <<MessageNext>>_vars

\* C24: under an infinite sequence of student messages without reset(),
\* the session eventually gives recommendations and is in state Discussing.
C24_LeavesClarifyingLoop ==
  <>(recommendations_given /\ state = DISCUSSING)

\* ------------------------------------------------------------------------
\* The profile summary of a recommendations response
\* ------------------------------------------------------------------------
\* C25: the profile summary that a recommendations response carries keeps
\* the content it had when the response was returned, through the merges
\* of later messages and through reset().
C25_SummaryIsSnapshot ==
  observed.summary.held => observed.summary.content = observed.summary.returned

\* the part about reset(): the summary held by the caller is the same
\* before and after it
C25_SummaryKeptByReset ==
  [][call'.op = "reset" => observed'.summary.content = observed.summary.content]_vars

\* the part about the moment of return
C25_SummaryAtReturn ==
  (call.op = "process_message" /\ response.type = "recommendations")
    => (observed.summary.held /\ observed.summary.content = profile)

\* ------------------------------------------------------------------------
\* The gateway's fallback latch
\* ------------------------------------------------------------------------
FallbackTexts ==
  {"fallback_generation(questions prompt)",
   "fallback_generation(recommendations prompt)",
   "fallback_generation(conversation prompt)"}

\* C28: use_fallback, once true, is true in every later state, reset()
\* included; a call whose endpoint request fails (status other than 200, or
\* an exception) sets it; while it is set no generate_response call
\* contacts the endpoint; a 200 answer without text makes that one call use
\* the fallback text and leaves the flag as it was.
C28_FallbackLatch ==
  [][/\ use_fallback => use_fallback'
     /\ IsTurn =>
          LET o == observed'.outcomes
              failed == o[1] = "failure" \/ o[2] = "failure"
          IN /\ use_fallback => o = NoCalls
             /\ ~use_fallback => o[1] # "not called"
             /\ failed => use_fallback'
             /\ o[1] = "failure" => o[2] = "not called"
             /\ (~use_fallback /\ ~failed) => ~use_fallback'
             /\ o[2] = "empty" => response'.content \in FallbackTexts
             /\ o[2] = "text" => response'.content = "endpoint text"]_vars

\* the flag was set by a failed endpoint call and reset() has run since
C28_Witness ==
  /\ observed.on
  /\ call.op = "reset"
  /\ use_fallback

\* ------------------------------------------------------------------------
\* State tag, recommendations_given and the counter between calls
\* ------------------------------------------------------------------------
Percentages == {0, 25, 50, 75, 100}

\* C26: between process_message calls recommendations_given is true
\* exactly when the state is Discussing, the state is never Recommending,
\* and the test "not recommendations_given" of the threshold rule does not
\* change the branch taken, whatever the next message is.
C26_GivenIffDiscussing ==
  /\ recommendations_given <=> state = DISCUSSING
  /\ state # RECOMMENDING
  /\ \A career \in BOOLEAN, percent \in Percentages, counter \in 0..(MaxCounter + 1) :
       select_rule(state, career, percent, recommendations_given, counter)
         = select_rule(state, career, percent, FALSE, counter)

\* the patience rule has just given recommendations
C26_Witness ==
  /\ call.op = "process_message"
  /\ call.rule = "patience"
  /\ state = DISCUSSING
  /\ recommendations_given

\* C27: between process_message calls the counter is at most 3 whenever the
\* state is not Discussing; in Discussing a turn without new information
\* and without career wording adds 1 to it, whatever its value.
C27_CounterBoundedOutsideDiscussing ==
  /\ [](state # DISCUSSING => consecutive_clarifying <= PatienceThreshold)
  /\ [][(IsTurn /\ call'.rule = "discussion" /\ profile' = profile
           /\ ~CareerTable[call'.message])
          => consecutive_clarifying' = consecutive_clarifying + 1]_vars

\* in Discussing the counter has passed 3
C27_Witness ==
  /\ state = DISCUSSING
  /\ call.rule = "discussion"
  /\ consecutive_clarifying = PatienceThreshold + 1

\* ------------------------------------------------------------------------
\* Error turns
\* ------------------------------------------------------------------------
\* C30: a process_message call that returns a response of kind fallback
\* leaves the state tag, recommendations_given, the counter and every
\* category of the profile as they were before the call.
C30_ErrorTurnChangesOnlyHistory ==
  [][(IsTurn /\ response'.type = "fallback") =>
       /\ state' = state
       /\ recommendations_given' = recommendations_given
       /\ consecutive_clarifying' = consecutive_clarifying
       /\ profile' = profile]_vars

\* the same without the profile
C30_ErrorTurnKeepsControlState ==
  [][(IsTurn /\ response'.type = "fallback") =>
       /\ state' = state
       /\ recommendations_given' = recommendations_given
       /\ consecutive_clarifying' = consecutive_clarifying]_vars

\* ------------------------------------------------------------------------
\* Discussion turns of a gateway in fallback mode
\* ------------------------------------------------------------------------
\* C29: when the gateway is in fallback mode, the text of a discussion
\* turn comes from the general-conversation branch of
\* _fallback_generation, for every student message.
C29_DiscussionUsesConversationBranch ==
  fallback_call.op = "handle_discussion"
    => fallback_call.generated.branch = "general_conversation_fallback"

\* what the dispatch does with the conversation prompt instead
C29_DiscussionUsesQuestionTemplates ==
  fallback_call.op = "handle_discussion"
    => fallback_call.generated.branch = "generate_questions_fallback"

====
